---------------------------- MODULE Spec2Model ----------------------------
(***************************************************************************)
(* A model of the chat proxy of League Deceiver: the MainController        *)
(* (src/src/controller.ts) and its ProxiedConnections                      *)
(* (src/src/proxy/proxied-connection.ts).                                  *)
(*                                                                         *)
(* Text.  A chunk is a sequence of atoms.  An atom is either a whole tag   *)
(* ("<show>", "</show>", "<presence to='...'>": everything from a "<" to   *)
(* its ">"), a single character of text, or one opaque run of text (a      *)
(* base64 payload).  Text never holds "<", so the regular expressions of   *)
(* the code, which are anchored on tags and on [^<]*, match on atom        *)
(* boundaries.  The two byte-level atoms BadByte and ReplChar model bytes  *)
(* that are not valid UTF-8 and the replacement character they decode to.  *)
(***************************************************************************)
EXTENDS Integers, Sequences, FiniteSets

\* ------------------------------------------------------------------ bounds

\* game blocks inside <games> of a generated presence stanza
MaxBlocks == 2
\* atoms cut off the end of a generated stanza (a chunk split by the transport)
MaxCut == 3
\* connections the chat listener accepts in one run
MaxConns == 2
\* requests the ConfigProxy gets in one run
MaxRequests == 2
\* idle timeouts armed at one time
MaxTimers == 2

\* ------------------------------------------------------------ the literals

FAKE_PLAYER_JID == "41c322a1-b328-495b-a004-5ccd3e45eae8@eu1.pvp.net"

PresenceStatus == [Online |-> "chat", Offline |-> "offline", Mobile |-> "mobile"]

Statuses == {PresenceStatus.Online, PresenceStatus.Offline, PresenceStatus.Mobile}

roster == "<query xmlns='jabber:iq:riotgames:roster'>"

\* the roster item of the fake player: one literal, kept as one atom
fakePlayer == "<item jid='41c322a1-b328-495b-a004-5ccd3e45eae8@eu1.pvp.net' name='&#9;Deceive Active!' subscription='both' puuid='41c322a1-b328-495b-a004-5ccd3e45eae8'>...</item>"

PresencePlain == "<presence>"
PresenceMuc == "<presence to='lobby@champ-select.eu1.pvp.net/me'>"
PresenceToFake == "<presence to='41c322a1-b328-495b-a004-5ccd3e45eae8@eu1.pvp.net'>"
MessageToFake == "<message to='41c322a1-b328-495b-a004-5ccd3e45eae8@eu1.pvp.net' type='chat'>"
MessageToFriend == "<message to='friend@eu1.pvp.net' type='chat'>"
MessageFromFake == "<message from='41c322a1-b328-495b-a004-5ccd3e45eae8@eu1.pvp.net/RC-Deceive' stamp='now' id='fake-now' type='chat'>"
PresenceFromFake == "<presence from='41c322a1-b328-495b-a004-5ccd3e45eae8@eu1.pvp.net/RC-Deceive' id='b-uuid'>"

\* a byte sequence that is no valid UTF-8 (a character cut by the chunk boundary)
BadByte == "0xC3"
\* U+FFFD, the character such bytes decode to (and its encoding EF BF BD)
ReplChar == "U+FFFD"

\* base64 of {"partyPresenceData":{"partyClientVersion":"release-09.00"}}
ValorantBlob == "eyJwYXJ0eVByZXNlbmNlRGF0YSI6eyJwYXJ0eUNsaWVudFZlcnNpb24iOiJyZWxlYXNlLTA5LjAwIn19"
ValorantRelease == "release-09.00"

GameTags == {"league_of_legends", "valorant", "bacon", "lion", "keystone", "riot_client"}

OpenTags ==
  {"<show>", "<status>", "<games>", "<st>", "<p>", "<m>", "<body>", "<iq>", "<b>",
   "<league_of_legends>", "<valorant>", "<bacon>", "<lion>", "<keystone>",
   "<riot_client>", "<s.t>", "<s.p>", "<s.c>", "<s.r>", "<s.l>", "<platform>",
   roster, PresencePlain, PresenceMuc, PresenceToFake, MessageToFake,
   MessageToFriend, MessageFromFake, PresenceFromFake}

CloseTags ==
  {"</show>", "</status>", "</games>", "</st>", "</p>", "</m>", "</body>", "</iq>",
   "</b>", "</league_of_legends>", "</valorant>", "</bacon>", "</lion>",
   "</keystone>", "</riot_client>", "</s.t>", "</s.p>", "</s.c>", "</s.r>",
   "</s.l>", "</platform>", "</query>", "</presence>", "</message>"}

EmptyTags == {"<pty/>", "<status/>", "<item jid='friend@eu1.pvp.net'/>", fakePlayer}

Tags == OpenTags \cup CloseTags \cup EmptyTags

\* [^<]: a character of text
IsText(a) == a \notin Tags

\* the atoms that hold the substring "<presence"
HasPresenceOpen(a) == a \in {PresencePlain, PresenceMuc, PresenceToFake, PresenceFromFake}

\* the atoms that hold the substring " to="
HasToAttr(a) == a \in {PresenceMuc, PresenceToFake, MessageToFake, MessageToFriend}

\* the atoms that hold the fake player's JID
HasFakeJid(a) == a \in {PresenceToFake, MessageToFake, MessageFromFake, PresenceFromFake, fakePlayer}

\* ------------------------------------------------------------ text helpers

Chat == <<"c", "h", "a", "t">>
Offline == <<"o", "f", "f", "l", "i", "n", "e">>
Mobile == <<"m", "o", "b", "i", "l", "e">>
Online == <<"o", "n", "l", "i", "n", "e">>
Enable == <<"e", "n", "a", "b", "l", "e">>
Disable == <<"d", "i", "s", "a", "b", "l", "e">>
StatusWord == <<"s", "t", "a", "t", "u", "s">>
Help == <<"h", "e", "l", "p">>

\* the characters of a PresenceStatus value (a template literal ${targetStatus})
StatusText(s) ==
  CASE s = "chat" -> Chat
    [] s = "offline" -> Offline
    [] s = "mobile" -> Mobile

RECURSIVE Flatten(_)
Flatten(ss) == IF ss = <<>> THEN <<>> ELSE Head(ss) \o Flatten(Tail(ss))

\* content.includes('<presence'), content.includes(' to='),
\* content.includes(FAKE_PLAYER_JID), content.includes(roster)
IncludesPresence(content) == \E i \in 1..Len(content) : HasPresenceOpen(content[i])
IncludesTo(content) == \E i \in 1..Len(content) : HasToAttr(content[i])
IncludesFakeJid(content) == \E i \in 1..Len(content) : HasFakeJid(content[i])
IncludesRoster(content) == \E i \in 1..Len(content) : content[i] = roster

UpperCase == <<"A", "B", "C", "D", "E", "F", "G", "H", "I", "J", "K", "L", "M",
               "N", "O", "P", "Q", "R", "S", "T", "U", "V", "W", "X", "Y", "Z">>
LowerCase == <<"a", "b", "c", "d", "e", "f", "g", "h", "i", "j", "k", "l", "m",
               "n", "o", "p", "q", "r", "s", "t", "u", "v", "w", "x", "y", "z">>

\* String.prototype.toLowerCase, per atom (the tags of the model hold no capitals
\* that matter to a command word)
Capitals == {UpperCase[i] : i \in 1..26}

ToLowerAtom(a) ==
  IF a \in Capitals THEN LowerCase[CHOOSE i \in 1..26 : UpperCase[i] = a] ELSE a

toLowerCase(content) == [i \in 1..Len(content) |-> ToLowerAtom(content[i])]

\* the command words a tag holds in its own name
TagWords(a) == IF a \in {"<status>", "</status>", "<status/>"} THEN {StatusWord} ELSE {}

\* lowerContent.includes(word): the word as a run of characters, or inside a tag
IncludesWord(content, word) ==
  \/ \E i \in 1..Len(content) : word \in TagWords(content[i])
  \/ \E i \in 1..Len(content) :
       /\ i + Len(word) - 1 <= Len(content)
       /\ \A k \in 1..Len(word) : content[i + k - 1] = word[k]

\* Buffer.toString('utf-8'): bytes that are no valid UTF-8 decode to U+FFFD
Utf8Decode(data) == [i \in 1..Len(data) |-> IF data[i] = BadByte THEN ReplChar ELSE data[i]]

\* Buffer.from(content, 'utf-8'): every character has its encoding
Utf8Encode(content) == content

\* ------------------------------------------------- the regular expressions
\* Each operator gives what the JavaScript engine gives for the expression named
\* in its comment: the matches are taken leftmost first, each `.*?` as short as
\* it can be, and with /g the search goes on after the end of a match.

\* s.indexOf(a, i): the first index j >= i with s[j] = a, or 0
IndexFrom(s, i, a) ==
  IF \E j \in i..Len(s) : s[j] = a
    THEN CHOOSE j \in i..Len(s) : s[j] = a /\ \A k \in i..(j - 1) : s[k] # a
    ELSE 0

\* [^<]*: the index after the run of text that starts at i
RECURSIVE SkipText(_, _)
SkipText(s, i) == IF i > Len(s) \/ ~IsText(s[i]) THEN i ELSE SkipText(s, i + 1)

\* open[^<]*close matched at i: the index of close, or 0
FlatEnd(s, i, open, close) ==
  IF i <= Len(s) /\ s[i] = open
    THEN LET j == SkipText(s, i + 1)
         IN  IF j <= Len(s) /\ s[j] = close THEN j ELSE 0
    ELSE 0

\* the first index k >= i where open[^<]*close matches, or 0
FirstFlat(s, i, open, close) ==
  IF \E k \in i..Len(s) : FlatEnd(s, k, open, close) > 0
    THEN CHOOSE k \in i..Len(s) :
           /\ FlatEnd(s, k, open, close) > 0
           /\ \A j \in i..(k - 1) : FlatEnd(s, j, open, close) = 0
    ELSE 0

\* s.replace(/open[^<]*close/g, repl), from index i on
RECURSIVE ReplaceFlatFrom(_, _, _, _, _)
ReplaceFlatFrom(s, i, open, close, repl) ==
  LET k == FirstFlat(s, i, open, close)
  IN  IF k = 0 THEN SubSeq(s, i, Len(s))
      ELSE SubSeq(s, i, k - 1) \o repl
             \o ReplaceFlatFrom(s, FlatEnd(s, k, open, close) + 1, open, close, repl)

ReplaceFlat(s, open, close, repl) == ReplaceFlatFrom(s, 1, open, close, repl)

\* s.replace(/open.*?close/gs, ''), from index i on: a match starts at the first
\* open that has a close after it and ends at the first close after that open
RECURSIVE RemoveSpansFrom(_, _, _, _)
RemoveSpansFrom(s, i, open, close) ==
  LET o == IndexFrom(s, i, open)
      e == IF o > 0 THEN IndexFrom(s, o + 1, close) ELSE 0
  IN  IF e = 0 THEN SubSeq(s, i, Len(s))
      ELSE SubSeq(s, i, o - 1) \o RemoveSpansFrom(s, e + 1, open, close)

RemoveSpans(s, open, close) == RemoveSpansFrom(s, 1, open, close)

\* s.replace(/(<games>.*?<league_of_legends>.*?)<st>[^<]*<\/st>/gs, `$1<st>${t}</st>`):
\* a match runs from a <games> over the first <league_of_legends> after it to the
\* first <st>[^<]*</st> after that
RECURSIVE RewriteLeagueStFrom(_, _, _)
RewriteLeagueStFrom(s, i, t) ==
  LET g == IndexFrom(s, i, "<games>")
      j == IF g > 0 THEN IndexFrom(s, g + 1, "<league_of_legends>") ELSE 0
      k == IF j > 0 THEN FirstFlat(s, j + 1, "<st>", "</st>") ELSE 0
  IN  IF k = 0 THEN SubSeq(s, i, Len(s))
      ELSE SubSeq(s, i, k - 1) \o <<"<st>">> \o t \o <<"</st>">>
             \o RewriteLeagueStFrom(s, FlatEnd(s, k, "<st>", "</st>") + 1, t)

RewriteLeagueSt(s, t) == RewriteLeagueStFrom(s, 1, t)

\* StripInLeague that strips nothing
StripInLeagueNothing(s, open, close) == s

\* s.replace(/<league_of_legends>.*?open[^<]*close/gs,
\*           (match) => match.replace(/open[^<]*close/g, ''))
RECURSIVE StripInLeagueFrom(_, _, _, _)
StripInLeagueFrom(s, i, open, close) ==
  LET l == IndexFrom(s, i, "<league_of_legends>")
      k == IF l > 0 THEN FirstFlat(s, l + 1, open, close) ELSE 0
      e == FlatEnd(s, k, open, close)
  IN  IF k = 0 THEN SubSeq(s, i, Len(s))
      ELSE SubSeq(s, i, l - 1) \o ReplaceFlat(SubSeq(s, l, e), open, close, <<>>)
             \o StripInLeagueFrom(s, e + 1, open, close)

StripInLeague(s, open, close) == StripInLeagueFrom(s, 1, open, close)

\* the first index k >= i where <p>([^<]+)</p> matches (a body of one character
\* at least), or 0
FirstFilledP(s, i) ==
  IF \E k \in i..Len(s) : FlatEnd(s, k, "<p>", "</p>") > k + 1
    THEN CHOOSE k \in i..Len(s) :
           /\ FlatEnd(s, k, "<p>", "</p>") > k + 1
           /\ \A j \in i..(k - 1) : FlatEnd(s, j, "<p>", "</p>") <= j + 1
    ELSE 0

\* /<valorant>.*?<p>([^<]+)<\/p>/s.exec(s)?.[1]: group 1, or <<>> without a match
ValorantMatch(s) ==
  LET i == IndexFrom(s, 1, "<valorant>")
      k == IF i > 0 THEN FirstFilledP(s, i + 1) ELSE 0
  IN  IF k > 0 THEN SubSeq(s, k + 1, FlatEnd(s, k, "<p>", "</p>") - 1) ELSE <<>>

Null == "null"

\* JSON.parse(Buffer.from(b64, 'base64'))['partyPresenceData']['partyClientVersion'],
\* Null when the text is no base64 of such a document (the parse error is ignored)
PartyClientVersion(b64) == IF b64 = <<ValorantBlob>> THEN ValorantRelease ELSE Null

\* ---------------------------------------------------------------- the state

ConnIds == 1..MaxConns

VARIABLES
  status,                  \* MainController.status
  enabled,                 \* MainController.enabled
  connectToMuc,            \* MainController.connectToMuc
  connections,             \* MainController.connections, in the array's order
  constructed,             \* the ProxiedConnection objects constructed so far
  connected,               \* ProxiedConnection.connected
  lastPresence,            \* ProxiedConnection.lastPresence (<<>> for null)
  insertedFakePlayer,      \* ProxiedConnection.insertedFakePlayer
  sentFakePlayerPresence,  \* ProxiedConnection.sentFakePlayerPresence
  valorantVersion,         \* ProxiedConnection.valorantVersion
  event,                   \* the event whose handler ran last, with its input and
                           \* the controller's status and enabled as it began
  io,                      \* what that handler wrote and called, in order
  presencesSent,           \* fake-player presences written to each client so far
  rosterChunks,            \* chunks with the roster marker each server has sent so far
  chatHost,                \* the controller's chat server host (Null before it is set)
  chatPort,                \* the controller's chat server port (0 before it is set)
  servingClients,          \* startup.ts: servingClients
  emitted,                 \* 'patchedChatServer' events the ConfigProxy has emitted so far
  requests,                \* the requests to the ConfigProxy: not yet made, awaiting
                           \* the upstream response, or answered
  shutdownTimer,           \* MainController.shutdownTimer (0 for null, else a timer's id)
  timers,                  \* the timeouts that are armed
  accepting,               \* 'connection' handlers waiting for the upstream's secureConnect
  destroyed,               \* destroy() calls on each connection's two sockets so far
  notified,                \* 'error' events each ProxiedConnection has emitted so far
  closeEvents,             \* sockets of a connection whose 'close' event is yet to come
  listening,               \* whether the chat listener and the ConfigProxy's server listen
  exitCode,                \* the code the process exited with (NotExited while it runs)
  certificates,            \* certificate.ts: cachedCertificate, the two files of the data
                           \* directory, and what getCertificate has done and returned
  pendingData,             \* socket.data.pendingData of each client socket
  clients,                 \* each client socket: whether it is open, whether its handler
                           \* waits for the chat server's address, whether the dial
                           \* failed, whether socket.data.proxiedConnection is set, and
                           \* the chunks that arrived on it and were dispatched from it
  twin,                    \* a second process, run side by side with this one on the
                           \* same inputs (<<>> where none is run)
  introduction             \* MainController.sentIntroductionText, and for each call of
                           \* sendIntroductionMessages that was scheduled, how many of
                           \* its messages it has sent (0 while its timeout is pending)

vars == <<status, enabled, connectToMuc, connections, constructed, connected,
          lastPresence, insertedFakePlayer, sentFakePlayerPresence,
          valorantVersion, event, io, presencesSent, rosterChunks,
          chatHost, chatPort, servingClients, emitted, requests,
          shutdownTimer, timers, accepting, destroyed, notified, closeEvents,
          listening, exitCode, certificates, pendingData, clients, twin, introduction>>

\* The program state as one value, so that a handler is a function from state to
\* state and the handlers it calls are applied in the order the code calls them.
Solo(second) ==
  [status |-> status, enabled |-> enabled, connectToMuc |-> connectToMuc,
   connections |-> connections, connected |-> connected,
   lastPresence |-> lastPresence, insertedFakePlayer |-> insertedFakePlayer,
   sentFakePlayerPresence |-> sentFakePlayerPresence,
   valorantVersion |-> valorantVersion, io |-> <<>>, presencesSent |-> presencesSent,
   chatHost |-> chatHost, chatPort |-> chatPort, servingClients |-> servingClients,
   emitted |-> emitted, requests |-> requests,
   shutdownTimer |-> shutdownTimer, timers |-> timers, accepting |-> accepting,
   destroyed |-> destroyed, notified |-> notified, closeEvents |-> closeEvents,
   listening |-> listening, exitCode |-> exitCode, certificates |-> certificates,
   pendingData |-> pendingData, clients |-> clients, twin |-> second,
   introduction |-> introduction]

Now == Solo(twin)

\* socket.write(data): `to` is "upstream" (this.outgoing) or "client" (this.incoming),
\* `via` names the line of the source that writes
Write(S, c, to, data, via) ==
  [S EXCEPT !.io = Append(@, [conn |-> c, to |-> to, data |-> data, via |-> via])]

\* a call of a method that the properties speak of, noted in the same log
Call(S, c, method, arg) ==
  [S EXCEPT !.io = Append(@, [conn |-> c, to |-> "call", data |-> <<arg>>, via |-> method])]

\* ------------------------------------------------------- ProxiedConnection

\* the body of `if (targetStatus !== PresenceStatus.Online)`, before the VALORANT
\* version is read: <status>, the League block or its <p> and <m>, the other games
\* StripLeague without its else branch: Offline treated as Mobile
StripLeagueAlwaysMobile(modified, targetStatus) ==
  StripInLeague(StripInLeague(modified, "<p>", "</p>"), "<m>", "</m>")

\* Mobile keeps the League block without its <p> and <m>; Offline removes the block
StripLeague(modified, targetStatus) ==
  IF targetStatus = PresenceStatus.Mobile
    THEN StripInLeague(StripInLeague(modified, "<p>", "</p>"), "<m>", "</m>")
    ELSE RemoveSpans(modified, "<league_of_legends>", "</league_of_legends>")

StripGames(modified, targetStatus) ==
  RemoveSpans(
    RemoveSpans(
      RemoveSpans(
        RemoveSpans(
          StripLeague(ReplaceFlat(modified, "<status>", "</status>", <<>>), targetStatus),
          "<bacon>", "</bacon>"),
        "<lion>", "</lion>"),
      "<keystone>", "</keystone>"),
    "<riot_client>", "</riot_client>")

\* if (!this.valorantVersion) { ... }: the version read from the VALORANT block
\* when none is known yet
ReadValorantVersion(modified, version) ==
  IF version = Null /\ ValorantMatch(modified) # <<>>
       /\ PartyClientVersion(ValorantMatch(modified)) # Null
    THEN PartyClientVersion(ValorantMatch(modified))
    ELSE version

\* the version is read, then the VALORANT block is removed
StripValorant(modified, version) ==
  [modified |-> RemoveSpans(modified, "<valorant>", "</valorant>"),
   version |-> ReadValorantVersion(modified, version)]

\* <show> and the first <st> of League get the target status
RewriteShow(content, targetStatus) ==
  RewriteLeagueSt(
    ReplaceFlat(content, "<show>", "</show>",
                <<"<show>">> \o StatusText(targetStatus) \o <<"</show>">>),
    StatusText(targetStatus))

\* the rewriting of rewriteAndSendPresence past the MUC test: [modified, version]
RewritePresence(content, targetStatus, version) ==
  IF targetStatus # PresenceStatus.Online
    THEN StripValorant(StripGames(RewriteShow(content, targetStatus), targetStatus), version)
    ELSE [modified |-> RewriteShow(content, targetStatus), version |-> version]

\* this.valorantVersion = ...; this.outgoing.write(Buffer.from(modified))
SendModified(S, c, r) ==
  Write([S EXCEPT !.valorantVersion[c] = r.version],
        c, "upstream", Utf8Encode(r.modified), "rewrite")

\* rewriteAndSendPresence without the test for ' to=': a presence to a room is
\* rewritten like any other
rewriteAndSendPresenceToAll(S, c, content, targetStatus) ==
  SendModified([S EXCEPT !.lastPresence[c] = content], c,
               RewritePresence(content, targetStatus, S.valorantVersion[c]))

rewriteAndSendPresence(S, c, content, targetStatus) ==
  LET S1 == [S EXCEPT !.lastPresence[c] = content]
  IN  IF S1.connectToMuc /\ IncludesTo(content)
        THEN Write(S1, c, "upstream", Utf8Encode(content), "muc")
        ELSE SendModified(S1, c, RewritePresence(content, targetStatus, S1.valorantVersion[c]))

\* base64 of the JSON of sendFakePlayerPresence, as one run of text
ValorantPresence(version) ==
  IF version = Null THEN "base64{isValid,partyId,partyClientVersion:unknown,accountLevel:1000}"
  ELSE "base64{isValid,partyId,partyClientVersion:release-09.00,accountLevel:1000}"

\* presenceMessage (the stanza id and the timestamps are opaque text)
FakePresence(version) ==
  <<PresenceFromFake, "<games>",
    "<keystone>", "<st>">> \o Chat \o <<"</st>", "<s.t>", "now", "</s.t>", "<pty/>", "</keystone>",
    "<league_of_legends>", "<st>">> \o Chat \o <<"</st>", "<s.c>", "live", "</s.c>",
        "<p>", "{pty:true}", "</p>", "</league_of_legends>",
    "<valorant>", "<st>">> \o Chat \o <<"</st>", "<s.r>", "PC", "</s.r>",
        "<p>", ValorantPresence(version), "</p>", "<pty/>", "</valorant>",
    "<bacon>", "<st>">> \o Chat \o <<"</st>", "<s.l>", "bacon_availability_online", "</s.l>", "</bacon>",
    "</games>", "<show>">> \o Chat \o <<"</show>", "<platform>", "riot", "</platform>",
    "<status/>", "</presence>">>

sendFakePlayerPresence(S, c) ==
  Write([S EXCEPT !.sentFakePlayerPresence[c] = TRUE,
                  !.presencesSent[c] = IF @ < 2 THEN @ + 1 ELSE @],
        c, "client", Utf8Encode(FakePresence(S.valorantVersion[c])), "fakePresence")

\* chatMessage: the text of a message is one atom
ChatMessage(message) == <<MessageFromFake, "<body>", message, "</body>", "</message>">>

\* sendMessageFromFakePlayer without its first test
ConnSendMessageFromFakePlayerAlways(S, c, message) ==
  Write(S, c, "client", Utf8Encode(ChatMessage(message)), "fakeMessage")

ConnSendMessageFromFakePlayer(S, c, message) ==
  IF ~S.insertedFakePlayer[c] \/ ~S.connected[c]
    THEN S
    ELSE Write(S, c, "client", Utf8Encode(ChatMessage(message)), "fakeMessage")

\* updateStatus that forgets the presence once it has replayed it
updateStatusForget(S, c, newStatus) ==
  LET S1 == Call(S, c, "updateStatus", newStatus)
  IN  IF S1.lastPresence[c] = <<>> \/ ~S1.connected[c]
        THEN S1
        ELSE [rewriteAndSendPresence(S1, c, S1.lastPresence[c], newStatus)
                EXCEPT !.lastPresence[c] = <<>>]

updateStatus(S, c, newStatus) ==
  LET S1 == Call(S, c, "updateStatus", newStatus)
  IN  IF S1.lastPresence[c] = <<>> \/ ~S1.connected[c]
        THEN S1
        ELSE rewriteAndSendPresence(S1, c, S1.lastPresence[c], newStatus)

\* ------------------------------------------------------------ MainController

\* for (const connection of this.connections) connection.updateStatus(newStatus)
RECURSIVE UpdateAll(_, _, _)
UpdateAll(S, cs, newStatus) ==
  IF cs = <<>> THEN S ELSE UpdateAll(updateStatus(S, Head(cs), newStatus), Tail(cs), newStatus)

RECURSIVE SendAll(_, _, _)
SendAll(S, cs, message) ==
  IF cs = <<>> THEN S
  ELSE SendAll(ConnSendMessageFromFakePlayer(S, Head(cs), message), Tail(cs), message)

sendMessageFromFakePlayer(S, message) == SendAll(S, S.connections, message)

\* statusText: 'online' for Online, else the value of the enum
StatusLabel(s) == IF s = PresenceStatus.Online THEN "online" ELSE s

NowAppearing(s) ==
  CASE StatusLabel(s) = "online" -> "You are now appearing online."
    [] StatusLabel(s) = "offline" -> "You are now appearing offline."
    [] StatusLabel(s) = "mobile" -> "You are now appearing mobile."

Appearing(s) ==
  CASE StatusLabel(s) = "online" -> "You are appearing online."
    [] StatusLabel(s) = "offline" -> "You are appearing offline."
    [] StatusLabel(s) = "mobile" -> "You are appearing mobile."

\* setStatus that sends the message before the connections replay
setStatusMessageFirst(S, newStatus) ==
  LET S1 == [S EXCEPT !.status = newStatus, !.enabled = TRUE]
  IN  UpdateAll(sendMessageFromFakePlayer(S1, NowAppearing(newStatus)),
                S1.connections, newStatus)

setStatus(S, newStatus) ==
  LET S1 == [S EXCEPT !.status = newStatus, !.enabled = TRUE]
  IN  sendMessageFromFakePlayer(UpdateAll(S1, S1.connections, newStatus),
                                NowAppearing(newStatus))

\* toggleEnabled that broadcasts the status whether enabled or not
toggleEnabledSameStatus(S) ==
  LET S1 == [S EXCEPT !.enabled = ~S.enabled]
  IN  sendMessageFromFakePlayer(
        UpdateAll(S1, S1.connections, S1.status),
        IF S1.enabled THEN "Deceive is now enabled." ELSE "Deceive is now disabled.")

toggleEnabled(S) ==
  LET S1 == [S EXCEPT !.enabled = ~S.enabled]
  IN  sendMessageFromFakePlayer(
        UpdateAll(S1, S1.connections,
                  IF S1.enabled THEN S1.status ELSE PresenceStatus.Online),
        IF S1.enabled THEN "Deceive is now enabled." ELSE "Deceive is now disabled.")

\* handleChatMessage that looks for `online` before `offline`
handleChatMessageOnlineFirst(S, content) ==
  LET lowerContent == toLowerCase(content)
  IN  IF IncludesWord(lowerContent, Online) THEN setStatus(S, PresenceStatus.Online)
      ELSE IF IncludesWord(lowerContent, Offline) THEN setStatus(S, PresenceStatus.Offline)
      ELSE IF IncludesWord(lowerContent, Mobile) THEN setStatus(S, PresenceStatus.Mobile)
      ELSE IF IncludesWord(lowerContent, Enable)
        THEN IF ~S.enabled THEN toggleEnabled(S)
             ELSE sendMessageFromFakePlayer(S, "Deceive is already enabled.")
      ELSE IF IncludesWord(lowerContent, Disable)
        THEN IF S.enabled THEN toggleEnabled(S)
             ELSE sendMessageFromFakePlayer(S, "Deceive is already disabled.")
      ELSE IF IncludesWord(lowerContent, StatusWord)
        THEN sendMessageFromFakePlayer(S, Appearing(S.status))
      ELSE IF IncludesWord(lowerContent, Help)
        THEN sendMessageFromFakePlayer(
               S, "Commands: online, offline, mobile, enable, disable, status, help")
      ELSE S

handleChatMessage(S, content) ==
  LET lowerContent == toLowerCase(content)
  IN  IF IncludesWord(lowerContent, Offline) THEN setStatus(S, PresenceStatus.Offline)
      ELSE IF IncludesWord(lowerContent, Mobile) THEN setStatus(S, PresenceStatus.Mobile)
      ELSE IF IncludesWord(lowerContent, Online) THEN setStatus(S, PresenceStatus.Online)
      ELSE IF IncludesWord(lowerContent, Enable)
        THEN IF ~S.enabled THEN toggleEnabled(S)
             ELSE sendMessageFromFakePlayer(S, "Deceive is already enabled.")
      ELSE IF IncludesWord(lowerContent, Disable)
        THEN IF S.enabled THEN toggleEnabled(S)
             ELSE sendMessageFromFakePlayer(S, "Deceive is already disabled.")
      ELSE IF IncludesWord(lowerContent, StatusWord)
        THEN sendMessageFromFakePlayer(S, Appearing(S.status))
      ELSE IF IncludesWord(lowerContent, Help)
        THEN sendMessageFromFakePlayer(
               S, "Commands: online, offline, mobile, enable, disable, status, help")
      ELSE S

\* ------------------------------------------- ProxiedConnection: the handlers

\* this.incoming.on('data', ...): a chunk from the client
\* Dispatch that forwards what it passes to the controller
DispatchAndForward(S, c, data, content) ==
  IF IncludesPresence(content) /\ S.enabled
    THEN rewriteAndSendPresence(S, c, content, S.status)
  ELSE IF IncludesFakeJid(content)
    THEN Write(handleChatMessage(Call(S, c, "handleChatMessage", content), content),
               c, "upstream", data, "forward")
  ELSE Write(S, c, "upstream", data, "forward")

\* Dispatch without the test of isEnabled(): every presence is rewritten
DispatchAlways(S, c, data, content) ==
  IF IncludesPresence(content)
    THEN rewriteAndSendPresence(S, c, content, S.status)
  ELSE IF IncludesFakeJid(content)
    THEN handleChatMessage(Call(S, c, "handleChatMessage", content), content)
  ELSE Write(S, c, "upstream", data, "forward")

\* the dispatch of a chunk from the client: a presence is rewritten, a chunk that
\* names the fake player goes to the controller, anything else is forwarded
Dispatch(S, c, data, content) ==
  IF IncludesPresence(content) /\ S.enabled
    THEN rewriteAndSendPresence(S, c, content, S.status)
  ELSE IF IncludesFakeJid(content)
    THEN handleChatMessage(Call(S, c, "handleChatMessage", content), content)
  ELSE Write(S, c, "upstream", data, "forward")

\* PresenceOnce without the test of sentFakePlayerPresence
PresenceEveryTime(S, c) ==
  IF S.insertedFakePlayer[c] THEN sendFakePlayerPresence(S, c) ELSE S

PresenceBeforeRoster(S, c) ==
  IF ~S.sentFakePlayerPresence[c] THEN sendFakePlayerPresence(S, c) ELSE S

\* if (this.insertedFakePlayer && !this.sentFakePlayerPresence) ...
PresenceOnce(S, c) ==
  IF S.insertedFakePlayer[c] /\ ~S.sentFakePlayerPresence[c]
    THEN sendFakePlayerPresence(S, c)
    ELSE S

handleIncoming(S, c, data) == PresenceOnce(Dispatch(S, c, data, Utf8Decode(data)), c)

\* content.replace(roster, roster + fakePlayer): the first occurrence only
InjectFakePlayer(content) ==
  LET i == IndexFrom(content, 1, roster)
  IN  SubSeq(content, 1, i) \o <<fakePlayer>> \o SubSeq(content, i + 1, Len(content))

\* this.outgoing.on('data', ...): a chunk from the chat server
handleOutgoing(S, c, data) ==
  LET content == Utf8Decode(data)
  IN  IF ~S.insertedFakePlayer[c] /\ IncludesRoster(content)
        THEN Write([S EXCEPT !.insertedFakePlayer[c] = TRUE],
                   c, "client", Utf8Encode(InjectFakePlayer(content)), "roster")
        ELSE Write(S, c, "client", data, "relay")

\* close(): the sockets are destroyed and 'error' is emitted, on which the
\* controller drops the connection from its array
RemoveFrom(cs, c) == SelectSeq(cs, LAMBDA x : x # c)

\* setTimeout(() => this.quit(), 60000): the timeout gets an id no armed timeout
\* has, and the handle is stored over whatever this.shutdownTimer held
ShutdownDelay == 60000

NewTimer(armed) ==
  IF armed = {} THEN 1
  ELSE 1 + (CHOOSE n \in {t.id : t \in armed} : \A t \in armed : t.id <= n)

scheduleShutdownNever(S) == S

scheduleShutdown(S) ==
  [S EXCEPT !.shutdownTimer = NewTimer(S.timers),
            !.timers = @ \cup {[id |-> NewTimer(S.timers), delay |-> ShutdownDelay,
                                outlived |-> FALSE]}]

\* clearTimeout(this.shutdownTimer): a handle of a timeout that is no longer armed
\* clears nothing
ClearTimeout(S) == [S EXCEPT !.timers = {t \in @ : t.id # S.shutdownTimer}]

OnConnectionClosedKeeps(S, c) == S

\* the listener the controller puts on the connection's 'error' event
OnConnectionClosed(S, c) ==
  IF RemoveFrom(S.connections, c) = <<>>
    THEN scheduleShutdown([S EXCEPT !.connections = <<>>])
    ELSE [S EXCEPT !.connections = RemoveFrom(@, c)]

BothSockets == {"incoming", "outgoing"}

Destroy(S, c) ==
  [S EXCEPT !.destroyed[c] = [incoming |-> @.incoming + 1, outgoing |-> @.outgoing + 1],
            !.closeEvents[c] = BothSockets]

Emit(S, c) == OnConnectionClosed([S EXCEPT !.notified[c] = @ + 1], c)

closeUnguarded(S, c) == Emit(Destroy([S EXCEPT !.connected[c] = FALSE], c), c)

close(S, c) ==
  IF ~S.connected[c] THEN S
  ELSE Emit(Destroy([S EXCEPT !.connected[c] = FALSE], c), c)

\* the handlers of 'error' and 'close' on either socket: both call close(); a
\* 'close' event is the socket's last
OnSocket(S, c, side, kind) ==
  IF kind = "close" THEN [close(S, c) EXCEPT !.closeEvents[c] = @ \ {side}]
  ELSE close(S, c)

\* the head of the 'connection' handler: the timeout the handle names is cleared
\* and the handle set to null; a timeout that stays armed has outlived an accept
OnConnection(S) ==
  [S EXCEPT !.timers = {[t EXCEPT !.outlived = TRUE] :
                          t \in {u \in @ : S.shutdownTimer = 0 \/ u.id # S.shutdownTimer}},
            !.shutdownTimer = 0]

\* the tail of the 'connection' handler, after secureConnect: a new
\* ProxiedConnection is constructed, started and pushed
Construct(S, c) ==
  [S EXCEPT !.accepting = @ \ {c},
            !.connected[c] = TRUE,
            !.lastPresence[c] = <<>>,
            !.insertedFakePlayer[c] = FALSE,
            !.sentFakePlayerPresence[c] = FALSE,
            !.valorantVersion[c] = Null,
            !.presencesSent[c] = 0,
            !.destroyed[c] = [incoming |-> 0, outgoing |-> 0],
            !.notified[c] = 0,
            !.closeEvents[c] = {}]

Establish(S, c) == [Construct(S, c) EXCEPT !.connections = Append(@, c)]

\* for (const connection of this.connections) connection.close(): the loop walks
\* the array it began with, whatever the listeners assign to this.connections
RECURSIVE CloseEach(_, _)
CloseEach(S, cs) ==
  IF cs = <<>> THEN S ELSE CloseEach(close(S, Head(cs)), Tail(cs))

stop(S) == CloseEach(ClearTimeout(S), S.connections)

NotExited == -1

Exit(S, code) == [S EXCEPT !.exitCode = code]

quit(S) == Exit(stop(S), 0)

\* the handler of SIGINT and of SIGTERM
OnSignal(S) ==
  Exit([stop(S) EXCEPT !.listening = [chat |-> FALSE, config |-> FALSE]], 0)

\* ------------------------------------------------------------ certificate.ts
\* A PEM text is known by where it came from: 0 for what the data directory held
\* before the process started, n for the n-th pair generateCertificate made (every
\* generated key pair is new). NoFile is a file that does not exist, NoPair is
\* cachedCertificate = null.
NoFile == <<"none", 0>>

NoPair == [certificate |-> NoFile, privateKey |-> NoFile]

Pem(n) == [certificate |-> <<"cert", n>>, privateKey |-> <<"key", n>>]

\* generateCertificate(): a new key pair and its self-signed certificate
generateCertificate(C) ==
  [C EXCEPT !.cachedCertificate = Pem(C.generated + 1), !.generated = @ + 1]

\* the outcome of one call: what it returned, or that it threw
Returned(C, pair) ==
  [C EXCEPT !.returned = @ \cup {pair}, !.last = pair, !.calls = @ + 1]

Threw(C) == [C EXCEPT !.last = NoPair, !.calls = @ + 1]

\* existsSync(certPath) && existsSync(keyPath)
BothExist(C) == C.certPath # NoFile /\ C.keyPath # NoFile

\* readFileSync of the two files into the cache
Load(C) ==
  [C EXCEPT !.cachedCertificate = [certificate |-> C.certPath, privateKey |-> C.keyPath],
            !.loaded = @ + 1]

\* the two writeFileSync calls: `written` is how many of them succeed
Save(C, written) ==
  [C EXCEPT !.certPath = IF written >= 1 THEN C.cachedCertificate.certificate ELSE @,
            !.keyPath = IF written >= 2 THEN C.cachedCertificate.privateKey ELSE @]

getCertificateUncached(C, readable, written) ==
  IF BothExist(C)
    THEN IF readable THEN Returned(Load(C), Load(C).cachedCertificate) ELSE Threw(C)
    ELSE IF written = 2
      THEN Returned(Save(generateCertificate(C), 2), generateCertificate(C).cachedCertificate)
      ELSE Threw(Save(generateCertificate(C), written))

\* getCertificate(): `readable` is whether readFileSync succeeds, `written` how
\* many of the two writeFileSync calls do
getCertificate(C, readable, written) ==
  IF C.cachedCertificate # NoPair THEN Returned(C, C.cachedCertificate)
  ELSE IF BothExist(C)
    THEN IF readable THEN Returned(Load(C), Load(C).cachedCertificate) ELSE Threw(C)
    ELSE IF written = 2
      THEN Returned(Save(generateCertificate(C), 2), generateCertificate(C).cachedCertificate)
      ELSE Threw(Save(generateCertificate(C), written))

\* the module as it is loaded, over a data directory that holds `cert` and `key`
CertificateModule(cert, key) ==
  [cachedCertificate |-> NoPair, certPath |-> cert, keyPath |-> key,
   generated |-> 0, loaded |-> 0, returned |-> {}, last |-> NoPair, calls |-> 0]

\* the chat listener has been started with the pair that an earlier run saved
CertificateInUse ==
  certificates = getCertificate(CertificateModule(Pem(0).certificate, Pem(0).privateKey), TRUE, 2)

\* ------------------------------------------------------ the accept path (Bun)
\* a client socket the listener has not yet handed to handleNewConnection
NewClient ==
  [accepted |-> FALSE, open |-> TRUE, waiting |-> FALSE, failed |-> FALSE,
   proxied |-> FALSE, arrived |-> <<>>, dispatched |-> <<>>]

\* !this.chatHost || !this.chatPort
Unconfigured(S) == S.chatHost = Null \/ S.chatPort = 0

\* Bun.connect({hostname: this.chatHost, port: this.chatPort, ...}): the dial is
\* under way until its open handler or its catch runs
connectToRealServer(S, c) ==
  [Call(S, c, "Bun.connect", <<S.chatHost, S.chatPort>>) EXCEPT
     !.accepting = @ \cup {c}, !.clients[c].waiting = FALSE]

handleNewConnectionAtOnce(S, c) ==
  connectToRealServer([OnConnection(S) EXCEPT !.clients[c].accepted = TRUE], c)

\* handleNewConnection(incomingSocket)
handleNewConnection(S, c) ==
  IF Unconfigured(S)
    THEN [OnConnection(S) EXCEPT !.clients[c].accepted = TRUE, !.clients[c].waiting = TRUE]
    ELSE connectToRealServer([OnConnection(S) EXCEPT !.clients[c].accepted = TRUE], c)

\* the setInterval callback of handleNewConnection, every 100 ms
checkConfig(S, c) ==
  IF Unconfigured(S) THEN S ELSE connectToRealServer(S, c)

\* proxied.handleIncomingData(data): the connection's handler of a client chunk
handleIncomingData(S, c, data) ==
  handleIncoming([S EXCEPT !.clients[c].dispatched = Append(@, data)], c, data)

handleIncomingSocketDataUnbuffered(S, c, data) ==
  IF S.clients[c].proxied THEN handleIncomingData(S, c, data) ELSE S

\* handleIncomingSocketData(socket, data)
handleIncomingSocketData(S, c, data) ==
  IF S.clients[c].proxied
    THEN handleIncomingData(S, c, data)
    ELSE [S EXCEPT !.pendingData[c] = Append(@, data)]

\* for (const bufferedData of pendingData) proxiedConnection.handleIncomingData(...)
RECURSIVE Flush(_, _, _)
Flush(S, c, chunks) ==
  IF chunks = <<>> THEN S
  ELSE Flush(handleIncomingData(S, c, Head(chunks)), c, Tail(chunks))

\* establishProxiedConnection(incomingSocket, outgoingSocket): the connection is
\* constructed, socket.data is replaced, the buffer is flushed, and then the
\* connection is pushed
\* this.connections.push(proxiedConnection), noted in the log
Push(S, c) == [Call(S, c, "connections.push", c) EXCEPT !.connections = Append(@, c)]

\* the introduction scheduled at every establishment
ScheduleIntroductionEveryTime(S) ==
  [S EXCEPT !.introduction.sentIntroductionText = TRUE,
            !.introduction.runs = Append(@, 0)]

\* if (!this.sentIntroductionText) { this.sentIntroductionText = true;
\*   setTimeout(() => void this.sendIntroductionMessages(), 10000) }
ScheduleIntroduction(S) ==
  IF ~S.introduction.sentIntroductionText
    THEN [S EXCEPT !.introduction.sentIntroductionText = TRUE,
                   !.introduction.runs = Append(@, 0)]
    ELSE S

establishProxiedConnection(S, c) ==
  ScheduleIntroduction(
    Push(Flush([Construct(S, c) EXCEPT !.clients[c].proxied = TRUE, !.pendingData[c] = <<>>],
               c, S.pendingData[c]),
         c))

IntroductionDelay == 10000

\* the four messages of sendIntroductionMessages, the first with statusText
IntroductionText(k, s) ==
  CASE k = 1 /\ StatusLabel(s) = "online" -> "Welcome! ... appearing online. ..."
    [] k = 1 /\ StatusLabel(s) = "offline" -> "Welcome! ... appearing offline. ..."
    [] k = 1 /\ StatusLabel(s) = "mobile" -> "Welcome! ... appearing mobile. ..."
    [] k = 2 -> "If you want to invite others while being offline, ..."
    [] k = 3 -> "To enable or disable Deceive, ... find Deceive in your tray icons."
    [] OTHER -> "Have fun!"

\* sendIntroductionMessages from its start or from an `await this.delay(200)` to
\* the next one or to its end: run r sends its next message
sendIntroductionMessages(S, r) ==
  sendMessageFromFakePlayer(
    [S EXCEPT !.introduction.runs[r] = @ + 1],
    IntroductionText(S.introduction.runs[r] + 1, S.status))

\* the catch of Bun.connect: the failure is logged
OnDialFailed(S, c) ==
  [S EXCEPT !.accepting = @ \ {c}, !.clients[c].failed = TRUE]

\* the close handler of the listener's sockets, for a socket that has no
\* proxiedConnection yet: socket.data?.proxiedConnection?.handleClose() does nothing
OnHeldClientClosed(S, c) == [S EXCEPT !.clients[c].open = FALSE]

\* ------------------------------------------- the handlers when something throws
\* `thrown` says whether a statement of the try block throws: in
\* rewriteAndSendPresence one of the rewriting statements after the test for a
\* room, in the 'data' handler of the upstream socket one of the statements that
\* patch the roster after insertedFakePlayer is set.

\* catch (err) of rewriteAndSendPresence: this.outgoing.write(Buffer.from(content))
rewriteAndSendPresenceOr(S, c, content, targetStatus, thrown) ==
  IF thrown /\ ~(S.connectToMuc /\ IncludesTo(content))
    THEN Write([S EXCEPT !.lastPresence[c] = content],
               c, "upstream", Utf8Encode(content), "original")
    ELSE rewriteAndSendPresence(S, c, content, targetStatus)

DispatchOr(S, c, data, content, thrown) ==
  IF IncludesPresence(content) /\ S.enabled
    THEN rewriteAndSendPresenceOr(S, c, content, S.status, thrown)
    ELSE Dispatch(S, c, data, content)

handleIncomingOr(S, c, data, thrown) ==
  PresenceOnce(DispatchOr(S, c, data, Utf8Decode(data), thrown), c)

\* catch (err) of the upstream socket's 'data' handler: logger.error(...) and
\* nothing else
handleOutgoingOr(S, c, data, thrown) ==
  IF thrown /\ ~S.insertedFakePlayer[c] /\ IncludesRoster(Utf8Decode(data))
    THEN [S EXCEPT !.insertedFakePlayer[c] = TRUE]
    ELSE handleOutgoing(S, c, data)

\* ------------------------------- the Bun controller: connections that end
\* proxied.handleClose(): the connection is marked closed and both its sockets
\* are ended (the class is not part of the sources at hand)
handleClose(S, c) ==
  IF ~S.connected[c] THEN S ELSE Destroy([S EXCEPT !.connected[c] = FALSE], c)

\* removeConnection(proxied): the filter, and the timeout when the set is empty
removeConnection(S, c) == OnConnectionClosed(S, c)

\* the close and error handlers of the upstream socket
OnOutgoingSocket(S, c, kind) ==
  IF kind = "close"
    THEN [removeConnection(handleClose(S, c), c) EXCEPT !.closeEvents[c] = @ \ {"outgoing"}]
    ELSE removeConnection(handleClose(S, c), c)

\* the close and error handlers of the listener's sockets: handleClose() alone
OnIncomingSocket(S, c, kind) ==
  IF kind = "close"
    THEN [handleClose(S, c) EXCEPT !.closeEvents[c] = @ \ {"incoming"},
                                   !.clients[c].open = FALSE]
    ELSE handleClose(S, c)

\* the process as startup leaves it: both listeners listen, nothing is armed
Started ==
  /\ shutdownTimer = 0
  /\ timers = {}
  /\ accepting = {}
  /\ destroyed = [c \in ConnIds |-> [incoming |-> 0, outgoing |-> 0]]
  /\ notified = [c \in ConnIds |-> 0]
  /\ closeEvents = [c \in ConnIds |-> {}]
  /\ listening = [chat |-> TRUE, config |-> TRUE]
  /\ exitCode = NotExited
  /\ pendingData = [c \in ConnIds |-> <<>>]
  /\ clients = [c \in ConnIds |-> NewClient]
  /\ introduction = [sentIntroductionText |-> FALSE, runs |-> <<>>]

\* no second process is run beside this one
Single == twin = <<>>

\* -------------------------------------------------------------- ConfigProxy

\* the port the chat listener is bound to, handed to the ConfigProxy (this.chatPort)
ChatListenerPort == 57000

Localhost == "127.0.0.1"

\* JSON values: t is the kind of value, s the text of a string, n the value of a
\* number, o the members of an object as pairs <<key, text>>
JAbsent == [t |-> "absent", s |-> "", n |-> 0, o |-> {}]
JNull == [t |-> "null", s |-> "", n |-> 0, o |-> {}]
JTrue == [t |-> "true", s |-> "", n |-> 0, o |-> {}]
JFalse == [t |-> "false", s |-> "", n |-> 0, o |-> {}]
JStr(x) == [t |-> "string", s |-> x, n |-> 0, o |-> {}]
JNum(x) == [t |-> "number", s |-> "", n |-> x, o |-> {}]
JObj(members) == [t |-> "object", s |-> "", n |-> 0, o |-> members]

\* key in config && typeof config[key] === 'object': true of null as well
IsObjectType(v) == v.t \in {"object", "null"}

\* affinities[affinity]: "" stands for undefined (both are falsy)
Lookup(members, key) ==
  IF \E p \in members : p[1] = key THEN (CHOOSE p \in members : p[1] = key)[2] ELSE ""

\* lines 97-106: the host and port read from the config before they are replaced
OriginalHost(config) == IF config.host.t = "string" THEN config.host.s ELSE Null
OriginalPort(config) == IF config.port.t = "number" THEN config.port.n ELSE 0

\* PlayerHost that reads the affinity's host after the affinities were replaced
PlayerHostAfterRewrite(config, authorization, pas) ==
  IF /\ IsObjectType(config.affinities)
     /\ config.affinityEnabled.t = "true" /\ authorization
     /\ pas.kind = "payload" /\ pas.affinity # ""
     /\ config.affinities.t = "object"
     /\ Lookup(config.affinities.o, pas.affinity) # ""
    THEN Localhost
    ELSE OriginalHost(config)

\* lines 113-137: the host of the player's affinity, when the feature is on, the
\* request is authorized, the PAS token has a payload that names an affinity and
\* the config has a host for it; any failure on the way keeps the host
PlayerHost(config, authorization, pas) ==
  IF /\ IsObjectType(config.affinities)
     /\ config.affinityEnabled.t = "true" /\ authorization
     /\ pas.kind = "payload" /\ pas.affinity # ""
     /\ config.affinities.t = "object"
     /\ Lookup(config.affinities.o, pas.affinity) # ""
    THEN Lookup(config.affinities.o, pas.affinity)
    ELSE OriginalHost(config)

\* Object.keys(affinities) of null throws a TypeError
RewriteThrows(config) == config.affinities.t = "null"

\* lines 97-148: the config as it is serialized again
Rewritten(config) ==
  [config EXCEPT
     !.host = IF @.t = "string" THEN JStr(Localhost) ELSE @,
     !.port = IF @.t = "number" THEN JNum(ChatListenerPort) ELSE @,
     !.affinities = IF @.t = "object" THEN JObj({<<p[1], Localhost>> : p \in @.o}) ELSE @,
     !.allowBadCert = IF @.t # "absent" THEN JTrue ELSE @]

\* new Response(body, {status, headers})
Response(code, contentType, text, content) ==
  [status |-> code, contentType |-> contentType, body |-> [text |-> text, content |-> content]]

Respond(S, id, response) == Write(S, id, "configClient", response, "response")

\* OnPatchedChatServer without the test of servingClients
OnPatchedChatServerAlways(S, target) ==
  [S EXCEPT !.servingClients = TRUE,
            !.chatHost = target.chatHost, !.chatPort = target.chatPort]

\* startup.ts: the listener of 'patchedChatServer', with setChatServerConfig
OnPatchedChatServer(S, target) ==
  IF ~S.servingClients
    THEN [S EXCEPT !.servingClients = TRUE,
                   !.chatHost = target.chatHost, !.chatPort = target.chatPort]
    ELSE S

\* this.emit('patchedChatServer', ...), when a host and a port were read
EmitTarget(S, id, host, port) ==
  IF host # Null /\ host # "" /\ port # 0
    THEN OnPatchedChatServer(
           [Call(S, id, "patchedChatServer", [chatHost |-> host, chatPort |-> port])
              EXCEPT !.emitted = @ + 1],
           [chatHost |-> host, chatPort |-> port])
    ELSE S

\* the catch that takes nothing for a failure: the body is serialized again
ParseThrowsNever(content) == FALSE

\* JSON.parse(content) throws on text that is no JSON; `'chat.host' in config`
\* throws a TypeError on null, a number, a string and a boolean. An array is an
\* object to both: no test finds a key in it and it is serialized again.
ParseThrows(content) == content.json \in {"invalid", "primitive"}

\* response.ok that holds of every status
OkAnyStatus(code) == code >= 0

\* response.ok
Ok(code) == code >= 200 /\ code <= 299

\* handleRequest from the upstream response on: up is what fetch(url) gave, pas
\* what the PAS lookup gives if it is made
handleRequest(S, id, authorization, up, pas) ==
  IF up.kind = "failure"
    THEN Respond(S, id, Response(502, "", "Bad Gateway", up.content))
  ELSE IF ~Ok(up.status)
    THEN Respond(S, id, Response(up.status, "application/json", "original", up.content))
  ELSE IF ParseThrows(up.content) \/ RewriteThrows(up.content.config)
    THEN Respond(S, id, Response(200, "application/json", "original", up.content))
  ELSE IF up.content.json = "array"
    THEN Respond(S, id, Response(200, "application/json", "stringified", up.content))
  ELSE Respond(EmitTarget(S, id, PlayerHost(up.content.config, authorization, pas),
                          OriginalPort(up.content.config)),
               id,
               Response(200, "application/json", "stringified",
                        [json |-> "object", config |-> Rewritten(up.content.config)]))

\* the proxy has served the config: the state in which connections are accepted
ConfigServed ==
  /\ chatHost = "chat.euw1.lol.riotgames.com"
  /\ chatPort = 5223
  /\ servingClients = TRUE
  /\ emitted = 1
  /\ requests = <<>>

\* ----------------------------------------------------------------- the input

El(tag, body, endTag) == <<tag>> \o body \o <<endTag>>

\* the game blocks a client presence may carry
LeagueA == El("<league_of_legends>",
              El("<st>", Chat, "</st>") \o El("<p>", <<"x">>, "</p>"),
              "</league_of_legends>")
LeagueB == El("<league_of_legends>",
              El("<st>", <<"d", "n", "d">>, "</st>") \o El("<m>", <<"x">>, "</m>")
                \o El("<p>", <<"x">>, "</p>"),
              "</league_of_legends>")
LeagueTwoP == El("<league_of_legends>",
                 El("<p>", <<"x">>, "</p>") \o El("<p>", <<"y">>, "</p>"),
                 "</league_of_legends>")
ValorantA == El("<valorant>", El("<st>", Chat, "</st>"), "</valorant>")
ValorantB == El("<valorant>",
                El("<st>", Chat, "</st>") \o El("<p>", <<ValorantBlob>>, "</p>"),
                "</valorant>")
Bacon == El("<bacon>", El("<st>", Chat, "</st>"), "</bacon>")
Lion == El("<lion>", El("<st>", Chat, "</st>"), "</lion>")
Keystone == El("<keystone>", El("<st>", Chat, "</st>") \o <<"<pty/>">>, "</keystone>")
RiotClient == El("<riot_client>", El("<st>", Chat, "</st>"), "</riot_client>")

BlockPool == {LeagueA, LeagueB, LeagueTwoP, ValorantB, Bacon, Keystone}

\* the sequences of at most n blocks
RECURSIVE BlockSeqs(_)
BlockSeqs(n) ==
  IF n = 0 THEN {<<>>}
  ELSE LET shorter == BlockSeqs(n - 1)
       IN  shorter \cup {Append(bs, b) : bs \in shorter, b \in BlockPool}

ShowChat == El("<show>", Chat, "</show>")
ShowDnd == El("<show>", <<"d", "n", "d">>, "</show>")
StatusHi == El("<status>", <<"h", "i">>, "</status>")

\* a presence stanza; <show> and <status> come before or after <games>
Stanza(open, show, stat, blocks, showFirst) ==
  LET games == El("<games>", Flatten(blocks), "</games>")
  IN  <<open>> \o (IF showFirst THEN show \o stat \o games ELSE games \o show \o stat)
        \o <<"</presence>">>

\* a chunk that ends before its stanza does
CutOff(chunk, n) == SubSeq(chunk, 1, Len(chunk) - n)

\* the presences of the client to everyone, whole or cut
PresenceChunks ==
  {CutOff(Stanza(PresencePlain, show, stat, blocks, TRUE), n) :
     show \in {<<>>, ShowChat, ShowDnd}, stat \in {<<>>, StatusHi},
     blocks \in BlockSeqs(MaxBlocks), n \in 0..MaxCut}

\* the fixture of scenarios S2 and S3
PresenceS2 == Stanza(PresencePlain, ShowChat, StatusHi, <<LeagueA, ValorantA>>, TRUE)

PresenceLobby == <<PresenceMuc>> \o ShowChat \o <<"</presence>">>

\* the presences to a room
MucChunks ==
  {PresenceLobby, PresenceLobby \o <<BadByte>>}
    \cup {CutOff(Stanza(PresenceMuc, ShowDnd, StatusHi, <<b>>, TRUE), n) :
            b \in BlockPool, n \in 0..MaxCut}

\* presences that are well-formed XML and still not what the patterns expect:
\* markup inside <status> and <show>, every game at once, a League block outside
\* <games>, two stanzas in one chunk
OddChunks ==
  {Stanza(PresencePlain, ShowChat, El("<status>", El("<b>", <<"h", "i">>, "</b>"), "</status>"),
          <<LeagueA>>, TRUE),
   Stanza(PresencePlain, El("<show>", Bacon, "</show>"), StatusHi, <<>>, TRUE),
   Stanza(PresencePlain, ShowChat, El("<status>", Bacon, "</status>"), <<>>, TRUE),
   Stanza(PresencePlain, ShowDnd, StatusHi,
          <<Keystone, LeagueB, ValorantB, Bacon, Lion, RiotClient>>, FALSE),
   <<PresencePlain>> \o ShowDnd \o LeagueB \o <<"</presence>">>,
   PresenceS2 \o PresenceS2,
   CutOff(PresenceS2, 2) \o <<BadByte>>}

MessageTo(to, text) == <<to>> \o El("<body>", text, "</body>") \o <<"</message>">>

\* what the user may type to the fake player
OfflinePlease == <<"O", "f", "f", "l", "i", "n", "e", " ", "p", "l", "e", "a", "s", "e">>

CommandTexts ==
  {OfflinePlease,
   Online \o <<" ", "n", "o", "t", " ">> \o Offline,
   <<"M", "O", "B", "I", "L", "E">>,
   <<"g", "o", " ">> \o Online,
   <<"E", "n", "a", "b", "l", "e", "d", "?">>,
   Disable \o <<" ", "i", "t">>,
   Disable \o <<",", " ">> \o Enable,
   <<"m", "y", " ">> \o StatusWord,
   Help \o <<" ">> \o StatusWord,
   <<"H", "E", "L", "P">>,
   <<"h", "e", "l", "l", "o">>}

CommandChunks == {MessageTo(MessageToFake, text) : text \in CommandTexts}

MessageHi == MessageTo(MessageToFriend, <<"h", "i">>)

\* chunks without a presence to rewrite: a message to a friend, an iq, a chunk that
\* ends inside a character, stanzas that name the fake player
OtherChunks ==
  {MessageHi, <<"<iq>", "</iq>">>, MessageHi \o <<BadByte>>,
   <<PresenceToFake>> \o ShowChat \o <<"</presence>">>,
   MessageHi \o PresenceS2,
   MessageTo(MessageToFake, OfflinePlease) \o PresenceS2}

\* every chunk the client is taken to send
Chunks ==
  {PresenceS2} \cup PresenceChunks \cup MucChunks \cup OddChunks \cup CommandChunks
    \cup OtherChunks

\* the chunks of the runs with several connections
ClientChunks == {PresenceS2, MessageHi, MessageTo(MessageToFake, OfflinePlease)}

RosterS4 == <<"<iq>", roster, "<item jid='friend@eu1.pvp.net'/>", "</query>", "</iq>">>

\* two roster queries in one chunk
RosterTwice == <<"<iq>", roster, "</query>", "</iq>", "<iq>", roster, "</query>", "</iq>">>

\* a roster chunk that ends inside a character
RosterCut == <<"<iq>", roster, "<item jid='friend@eu1.pvp.net'/>", BadByte>>

ServerChunks == {RosterS4, RosterTwice, RosterCut, MessageHi}

\* ------------------------------------------------------------- the actions

\* an event as the model records it: what happened, on which connection, with which
\* input, and the controller's status and enabled flag as the handler began
Event(op, c, data) ==
  [op |-> op, conn |-> c, data |-> data, status |-> status, enabled |-> enabled]

\* the state a handler leaves
Apply(S) ==
  /\ status' = S.status
  /\ enabled' = S.enabled
  /\ connectToMuc' = S.connectToMuc
  /\ connections' = S.connections
  /\ connected' = S.connected
  /\ lastPresence' = S.lastPresence
  /\ insertedFakePlayer' = S.insertedFakePlayer
  /\ sentFakePlayerPresence' = S.sentFakePlayerPresence
  /\ valorantVersion' = S.valorantVersion
  /\ presencesSent' = S.presencesSent
  /\ io' = S.io
  /\ chatHost' = S.chatHost
  /\ chatPort' = S.chatPort
  /\ servingClients' = S.servingClients
  /\ emitted' = S.emitted
  /\ requests' = S.requests
  /\ shutdownTimer' = S.shutdownTimer
  /\ timers' = S.timers
  /\ accepting' = S.accepting
  /\ destroyed' = S.destroyed
  /\ notified' = S.notified
  /\ closeEvents' = S.closeEvents
  /\ listening' = S.listening
  /\ exitCode' = S.exitCode
  /\ certificates' = S.certificates
  /\ pendingData' = S.pendingData
  /\ clients' = S.clients
  /\ twin' = S.twin
  /\ introduction' = S.introduction

Init ==
  /\ status \in Statuses
  /\ enabled = TRUE
  /\ connectToMuc = TRUE
  /\ connections = <<>>
  /\ constructed = {}
  /\ connected = [c \in ConnIds |-> TRUE]
  /\ lastPresence = [c \in ConnIds |-> <<>>]
  /\ insertedFakePlayer = [c \in ConnIds |-> FALSE]
  /\ sentFakePlayerPresence = [c \in ConnIds |-> FALSE]
  /\ valorantVersion = [c \in ConnIds |-> Null]
  /\ presencesSent = [c \in ConnIds |-> 0]
  /\ rosterChunks = [c \in ConnIds |-> 0]
  /\ event = Event("init", 0, <<>>)
  /\ io = <<>>
  /\ ConfigServed
  /\ Started
  /\ Single
  /\ CertificateInUse

\* a client connects and the upstream TLS connection is made: the
\* ProxiedConnection is constructed, started and pushed
Accept(c) ==
  /\ c \notin constructed
  /\ \A d \in ConnIds : d < c => d \in constructed
  /\ constructed' = constructed \cup {c}
  /\ Apply(Establish(OnConnection(Now), c))
  /\ event' = Event("accept", c, <<>>)
  /\ UNCHANGED rosterChunks

ClientData(c, data) ==
  /\ c \in constructed /\ connected[c]
  /\ Apply(handleIncoming(Now, c, data))
  /\ event' = Event("clientData", c, data)
  /\ UNCHANGED <<constructed, rosterChunks>>

ServerData(c, data) ==
  /\ c \in constructed /\ connected[c]
  /\ Apply(handleOutgoing(Now, c, data))
  /\ event' = Event("serverData", c, data)
  /\ rosterChunks' = [rosterChunks EXCEPT
                        ![c] = IF IncludesRoster(Utf8Decode(data)) /\ @ < 2 THEN @ + 1 ELSE @]
  /\ UNCHANGED constructed

\* 'close' or 'error' of either socket
SocketClosed(c) ==
  /\ c \in constructed /\ connected[c]
  /\ Apply(OnSocket(Now, c, "incoming", "close"))
  /\ event' = Event("close", c, <<>>)
  /\ UNCHANGED <<constructed, rosterChunks>>

\* the tray's status items
TraySetStatus(newStatus) ==
  /\ Apply(setStatus(Now, newStatus))
  /\ event' = Event("setStatus", 0, <<newStatus>>)
  /\ UNCHANGED <<constructed, rosterChunks>>

\* the tray's enable item
TrayToggleEnabled ==
  /\ Apply(toggleEnabled(Now))
  /\ event' = Event("toggleEnabled", 0, <<>>)
  /\ UNCHANGED <<constructed, rosterChunks>>

Next ==
  \/ \E c \in ConnIds : Accept(c)
  \/ \E c \in ConnIds, data \in ClientChunks : ClientData(c, data)
  \/ \E c \in ConnIds, data \in ServerChunks : ServerData(c, data)
  \/ \E c \in ConnIds : SocketClosed(c)
  \/ \E newStatus \in Statuses : TraySetStatus(newStatus)
  \/ TrayToggleEnabled

Spec == Init /\ [][Next]_vars

\* The client-to-upstream handler as a function of its input: one connection, the
\* mode and the enabled flag drawn freely, one chunk handled.
InitRewrite ==
  /\ status \in Statuses
  /\ enabled \in BOOLEAN
  /\ connectToMuc = TRUE
  /\ connections = <<1>>
  /\ constructed = {1}
  /\ connected = [c \in ConnIds |-> TRUE]
  /\ lastPresence = [c \in ConnIds |-> <<>>]
  /\ insertedFakePlayer = [c \in ConnIds |-> FALSE]
  /\ sentFakePlayerPresence = [c \in ConnIds |-> FALSE]
  /\ valorantVersion = [c \in ConnIds |-> Null]
  /\ presencesSent = [c \in ConnIds |-> 0]
  /\ rosterChunks = [c \in ConnIds |-> 0]
  /\ event = Event("init", 0, <<>>)
  /\ io = <<>>
  /\ ConfigServed
  /\ Started
  /\ Single
  /\ CertificateInUse

HandleOne == \E data \in Chunks : event.op = "init" /\ ClientData(1, data)

SpecRewrite == InitRewrite /\ [][HandleOne]_vars

\* The controller's operations as functions of the state they start in: every
\* connection pushed and open, each with or without a presence seen, a roster
\* patched and the fake player's presence sent; one command, or toggles in a row.
ConnStates ==
  {[last |-> l, inserted |-> i, sent |-> t] :
     l \in {<<>>, PresenceS2}, i \in BOOLEAN, t \in BOOLEAN}

InitCommand ==
  /\ status \in Statuses
  /\ enabled \in BOOLEAN
  /\ connectToMuc = TRUE
  /\ connections = [c \in ConnIds |-> c]
  /\ constructed = ConnIds
  /\ connected = [c \in ConnIds |-> TRUE]
  /\ \E st \in [ConnIds -> {x \in ConnStates : x.sent => x.inserted}] :
       /\ lastPresence = [c \in ConnIds |-> st[c].last]
       /\ insertedFakePlayer = [c \in ConnIds |-> st[c].inserted]
       /\ sentFakePlayerPresence = [c \in ConnIds |-> st[c].sent]
       /\ presencesSent = [c \in ConnIds |-> IF st[c].sent THEN 1 ELSE 0]
       /\ rosterChunks = [c \in ConnIds |-> IF st[c].inserted THEN 1 ELSE 0]
  /\ valorantVersion = [c \in ConnIds |-> Null]
  /\ event = Event("init", 0, <<>>)
  /\ io = <<>>
  /\ ConfigServed
  /\ Started
  /\ Single
  /\ CertificateInUse

\* what a client may send while the user talks to the fake player
CommandInputs ==
  CommandChunks
    \cup {<<PresenceToFake>> \o ShowChat \o <<"</presence>">>,
          <<PresenceToFake>> \o StatusHi \o <<"</presence>">>,
          MessageHi, PresenceS2}

ChatOne ==
  \E c \in ConnIds, data \in CommandInputs : event.op = "init" /\ ClientData(c, data)

SetOne == \E newStatus \in Statuses : event.op = "init" /\ TraySetStatus(newStatus)

ToggleAgain == event.op \in {"init", "toggleEnabled"} /\ TrayToggleEnabled

NextCommand == ChatOne \/ SetOne \/ ToggleAgain

SpecCommand == InitCommand /\ [][NextCommand]_vars

\* updateStatus as a function of the connection it is called on: one connection,
\* which has handled one chunk from its client or none, is asked to replay, again
\* and again; the event notes whether the call repeats the one before it.
InitUpdate ==
  /\ status = PresenceStatus.Offline
  /\ enabled = TRUE
  /\ connectToMuc = TRUE
  /\ connections = <<1>>
  /\ constructed = {1}
  /\ connected = [c \in ConnIds |-> TRUE]
  /\ lastPresence = [c \in ConnIds |-> <<>>]
  /\ insertedFakePlayer = [c \in ConnIds |-> FALSE]
  /\ sentFakePlayerPresence = [c \in ConnIds |-> FALSE]
  /\ valorantVersion = [c \in ConnIds |-> Null]
  /\ presencesSent = [c \in ConnIds |-> 0]
  /\ rosterChunks = [c \in ConnIds |-> 0]
  /\ event = Event("init", 0, <<>>)
  /\ io = <<>>
  /\ ConfigServed
  /\ Started
  /\ Single
  /\ CertificateInUse

\* the chunks of the replay: whole and cut presences, presences to a room, the
\* anomalies, and a message
UpdateChunks == {d \in Chunks : d \notin CommandChunks}

ChunkFirst == \E data \in UpdateChunks : event.op = "init" /\ ClientData(1, data)

UpdateOne ==
  \E newStatus \in Statuses :
    /\ Apply(updateStatus(Now, 1, newStatus))
    /\ event' = Event("updateStatus", 1,
                      <<newStatus,
                        IF event.op = "updateStatus" /\ event.data[1] = newStatus
                          THEN 2 ELSE 1>>)
    /\ UNCHANGED <<constructed, rosterChunks>>

NextUpdate == ChunkFirst \/ UpdateOne

SpecUpdate == InitUpdate /\ [][NextUpdate]_vars

\* ----------------------------------------------- the ConfigProxy's requests

HostNA == "chat.na1.lol.riotgames.com"
HostEUW == "chat.euw1.lol.riotgames.com"
HostDefault == "chat.lol.riotgames.com"

\* the values of the upstream config's fields
Hosts == {JStr(HostDefault), JStr(""), JAbsent}
Ports == {JNum(5223), JNum(443), JNum(0), JStr("5223")}
Affinities ==
  {JAbsent, JObj({<<"na", HostNA>>, <<"euw", HostEUW>>}), JObj({}), JNull, JStr("na")}

\* the config the upstream usually serves
UsualConfig ==
  [host |-> JStr(HostDefault), port |-> JNum(5223),
   affinities |-> JObj({<<"na", HostNA>>, <<"euw", HostEUW>>}),
   affinityEnabled |-> JTrue, allowBadCert |-> JFalse, other |-> JStr("keep")]

\* the fields in which cfg differs from the usual config
Unusual(cfg) == {f \in DOMAIN cfg : cfg[f] # UsualConfig[f]}

\* the configs that differ from the usual one in at most two fields
Configs ==
  {cfg \in [host : Hosts, port : Ports, affinities : Affinities,
            affinityEnabled : {JTrue, JFalse}, allowBadCert : {JAbsent, JFalse},
            other : {JStr("keep")}] : Cardinality(Unusual(cfg)) <= 2}

NoConfig ==
  [host |-> JAbsent, port |-> JAbsent, affinities |-> JAbsent,
   affinityEnabled |-> JAbsent, allowBadCert |-> JAbsent, other |-> JAbsent]

\* what fetch(url) gives: a response with a JSON object, with text that is no
\* JSON, with JSON that is null, a number, a string or a boolean, with a JSON
\* array, an error status, or a rejection
Upstreams ==
  {[kind |-> "response", status |-> 200, content |-> [json |-> "object", config |-> cfg]] :
     cfg \in Configs}
    \cup {[kind |-> "response", status |-> code,
           content |-> [json |-> "object", config |-> cfg]] :
            code \in {204, 404},
            cfg \in {UsualConfig}}
    \cup {[kind |-> k[1], status |-> k[2], content |-> [json |-> k[3], config |-> NoConfig]] :
            k \in {<<"response", 200, "invalid">>, <<"response", 200, "primitive">>,
                   <<"response", 200, "array">>,
                   <<"response", 500, "invalid">>, <<"failure", 0, "invalid">>}}

\* what the PAS lookup gives: a rejection or an unreadable token, a token with
\* fewer than two parts, or a payload with or without an affinity
NoPas == [kind |-> "none", affinity |-> ""]
PasOutcomes ==
  {[kind |-> "throws", affinity |-> ""], [kind |-> "short", affinity |-> ""],
   [kind |-> "payload", affinity |-> "na"], [kind |-> "payload", affinity |-> "asia"],
   [kind |-> "payload", affinity |-> ""]}

\* line 113-117: the lookup is made
LooksUp(authorization, up) ==
  /\ up.kind = "response" /\ Ok(up.status) /\ up.content.json = "object"
  /\ IsObjectType(up.content.config.affinities)
  /\ up.content.config.affinityEnabled.t = "true" /\ authorization

RequestIds == 1..MaxRequests

ConfigIdle ==
  /\ chatHost = Null
  /\ chatPort = 0
  /\ servingClients = FALSE
  /\ emitted = 0
  /\ requests = [id \in RequestIds |-> [state |-> "idle", authorization |-> FALSE]]

\* the process after startup: both listeners started, nothing served yet
InitConfig ==
  /\ status = PresenceStatus.Offline
  /\ enabled = TRUE
  /\ connectToMuc = TRUE
  /\ connections = <<>>
  /\ constructed = {}
  /\ connected = [c \in ConnIds |-> TRUE]
  /\ lastPresence = [c \in ConnIds |-> <<>>]
  /\ insertedFakePlayer = [c \in ConnIds |-> FALSE]
  /\ sentFakePlayerPresence = [c \in ConnIds |-> FALSE]
  /\ valorantVersion = [c \in ConnIds |-> Null]
  /\ presencesSent = [c \in ConnIds |-> 0]
  /\ rosterChunks = [c \in ConnIds |-> 0]
  /\ event = Event("init", 0, <<>>)
  /\ io = <<>>
  /\ ConfigIdle
  /\ Started
  /\ Single
  /\ CertificateInUse

\* a request arrives and is forwarded; the handler awaits fetch(url)
ConfigRequest(id, authorization) ==
  /\ requests[id].state = "idle"
  /\ \A j \in RequestIds : j < id => requests[j].state # "idle"
  /\ Apply([Now EXCEPT !.requests[id] = [state |-> "pending", authorization |-> authorization]])
  /\ event' = Event("configRequest", id, <<authorization>>)
  /\ UNCHANGED <<constructed, rosterChunks>>

\* the upstream answers (or fails) and the handler runs to its response
ConfigResponse(id, up, pas) ==
  /\ requests[id].state = "pending"
  /\ Apply(handleRequest([Now EXCEPT !.requests[id] = [state |-> "done", authorization |-> FALSE]],
                         id,
                         requests[id].authorization, up, pas))
  /\ event' = Event("configResponse", id, <<requests[id].authorization, up, pas>>)
  /\ UNCHANGED <<constructed, rosterChunks>>

NextConfig ==
  \/ \E id \in RequestIds, authorization \in BOOLEAN : ConfigRequest(id, authorization)
  \/ \E id \in RequestIds, up \in Upstreams :
       \E pas \in IF LooksUp(requests[id].authorization, up) THEN PasOutcomes ELSE {NoPas} :
         ConfigResponse(id, up, pas)

SpecConfig == InitConfig /\ [][NextConfig]_vars

\* ----------------------------------------------- the life of the process
\* Connections come and go and the process is told to end: every trigger of
\* close() on every connection, the 'connection' handler in its two halves (before
\* and after the wait for the upstream), the idle timeout, the tray's Quit and
\* the two signals. A connection object that is closed and whose sockets have
\* said their last is forgotten, and its place is taken by the next one.
InitLife ==
  /\ status = PresenceStatus.Offline
  /\ enabled = TRUE
  /\ connectToMuc = TRUE
  /\ connections = <<>>
  /\ constructed = {}
  /\ connected = [c \in ConnIds |-> TRUE]
  /\ lastPresence = [c \in ConnIds |-> <<>>]
  /\ insertedFakePlayer = [c \in ConnIds |-> FALSE]
  /\ sentFakePlayerPresence = [c \in ConnIds |-> FALSE]
  /\ valorantVersion = [c \in ConnIds |-> Null]
  /\ presencesSent = [c \in ConnIds |-> 0]
  /\ rosterChunks = [c \in ConnIds |-> 0]
  /\ event = Event("init", 0, <<>>)
  /\ io = <<>>
  /\ ConfigServed
  /\ Started
  /\ Single
  /\ CertificateInUse

Running == exitCode = NotExited

Free(c) ==
  /\ c \notin accepting
  /\ c \in constructed => ~connected[c] /\ closeEvents[c] = {}

Incoming(c) ==
  /\ Running /\ servingClients
  /\ Free(c)
  /\ \A d \in ConnIds : d < c => ~Free(d)
  /\ Apply([OnConnection(Now) EXCEPT !.accepting = @ \cup {c}])
  /\ event' = Event("incoming", c, <<>>)
  /\ UNCHANGED <<constructed, rosterChunks>>

Established(c) ==
  /\ Running
  /\ c \in accepting
  /\ constructed' = constructed \cup {c}
  /\ Apply(Establish(Now, c))
  /\ event' = Event("established", c, <<>>)
  /\ UNCHANGED rosterChunks

ConnectFailed(c) ==
  /\ Running
  /\ c \in accepting
  /\ Apply([Now EXCEPT !.accepting = @ \ {c}])
  /\ event' = Event("connectFailed", c, <<>>)
  /\ UNCHANGED <<constructed, rosterChunks>>

SocketKinds == {"close", "error"}

SocketEvent(c, side, kind) ==
  /\ Running
  /\ c \in constructed /\ c \notin accepting
  /\ connected[c] \/ side \in closeEvents[c]
  /\ Cardinality(OnSocket(Now, c, side, kind).timers) <= MaxTimers
  /\ Apply(OnSocket(Now, c, side, kind))
  /\ event' = Event("socket", c, <<side, kind, connected[c]>>)
  /\ UNCHANGED <<constructed, rosterChunks>>

\* the timeouts there can be
Timeouts == [id : 1..MaxTimers, delay : {ShutdownDelay}, outlived : BOOLEAN]

TimerFired(t) ==
  /\ Running
  /\ t \in timers
  /\ Apply(quit([Now EXCEPT !.timers = @ \ {t}]))
  /\ event' = Event("timer", 0, <<t, connections>>)
  /\ UNCHANGED <<constructed, rosterChunks>>

TrayQuit ==
  /\ Running
  /\ Apply(quit(Now))
  /\ event' = Event("trayQuit", 0, <<connections>>)
  /\ UNCHANGED <<constructed, rosterChunks>>

Signals == {"SIGINT", "SIGTERM"}

Signal(sig) ==
  /\ Running
  /\ Apply(OnSignal(Now))
  /\ event' = Event(sig, 0, <<connections>>)
  /\ UNCHANGED <<constructed, rosterChunks>>

NextLife ==
  \/ \E c \in ConnIds : Incoming(c)
  \/ \E c \in ConnIds : Established(c)
  \/ \E c \in ConnIds : ConnectFailed(c)
  \/ \E c \in ConnIds, side \in BothSockets, kind \in SocketKinds : SocketEvent(c, side, kind)
  \/ \E t \in Timeouts : TimerFired(t)
  \/ TrayQuit
  \/ \E sig \in Signals : Signal(sig)

SpecLife == InitLife /\ [][NextLife]_vars

\* the timeout is due 60 s after it is armed and the event loop runs it then
SpecLifeFair == SpecLife /\ WF_vars(\E t \in Timeouts : TimerFired(t))

\* ------------------------------------------------------ getCertificate called
\* getCertificate is called again and again in one process (the chat listener,
\* the tests, the setup command) over any data directory, with a file system
\* that may fail a read or a write.
\* calls of getCertificate in one process
MaxCalls == 4

InitCertificate ==
  /\ status = PresenceStatus.Offline
  /\ enabled = TRUE
  /\ connectToMuc = TRUE
  /\ connections = <<>>
  /\ constructed = {}
  /\ connected = [c \in ConnIds |-> TRUE]
  /\ lastPresence = [c \in ConnIds |-> <<>>]
  /\ insertedFakePlayer = [c \in ConnIds |-> FALSE]
  /\ sentFakePlayerPresence = [c \in ConnIds |-> FALSE]
  /\ valorantVersion = [c \in ConnIds |-> Null]
  /\ presencesSent = [c \in ConnIds |-> 0]
  /\ rosterChunks = [c \in ConnIds |-> 0]
  /\ event = Event("init", 0, <<>>)
  /\ io = <<>>
  /\ ConfigIdle
  /\ Started
  /\ Single
  /\ \E cert \in {NoFile, Pem(0).certificate}, key \in {NoFile, Pem(0).privateKey} :
       certificates = CertificateModule(cert, key)

GetCertificate(readable, written) ==
  /\ certificates.calls < MaxCalls
  /\ Apply([Now EXCEPT !.certificates = getCertificate(@, readable, written)])
  /\ event' = Event("getCertificate", 0, <<readable, written>>)
  /\ UNCHANGED <<constructed, rosterChunks>>

NextCertificate == \E readable \in BOOLEAN, written \in 0..2 : GetCertificate(readable, written)

SpecCertificate == InitCertificate /\ [][NextCertificate]_vars

\* ------------------------------------------------- clients that are held
\* Clients connect before and after the chat server's address is known, send
\* chunks while they are held and afterwards, and leave while they are held; the
\* dial to the chat server opens or fails; the mode is changed from the tray.
\* clients that connect in one run
MaxHeld == 1

HeldIds == {c \in ConnIds : c <= MaxHeld}

\* chunks that arrive on the client sockets in one run
MaxChunks == 3

RECURSIVE Arrived(_)
Arrived(cs) ==
  IF cs = {} THEN 0
  ELSE LET c == CHOOSE x \in cs : TRUE IN Len(clients[c].arrived) + Arrived(cs \ {c})

HoldChunks == {PresenceS2, MessageHi, MessageTo(MessageToFake, OfflinePlease)}

\* the mode starts as Online and the tray sets it to
HoldStatuses == {PresenceStatus.Offline}

ChatTarget == [chatHost |-> "chat.euw1.lol.riotgames.com", chatPort |-> 5223]

InitHold ==
  /\ status = PresenceStatus.Online
  /\ enabled = TRUE
  /\ connectToMuc = TRUE
  /\ connections = <<>>
  /\ constructed = {}
  /\ connected = [c \in ConnIds |-> TRUE]
  /\ lastPresence = [c \in ConnIds |-> <<>>]
  /\ insertedFakePlayer = [c \in ConnIds |-> FALSE]
  /\ sentFakePlayerPresence = [c \in ConnIds |-> FALSE]
  /\ valorantVersion = [c \in ConnIds |-> Null]
  /\ presencesSent = [c \in ConnIds |-> 0]
  /\ rosterChunks = [c \in ConnIds |-> 0]
  /\ event = Event("init", 0, <<>>)
  /\ io = <<>>
  /\ ConfigIdle
  /\ Started
  /\ Single
  /\ CertificateInUse

ClientOpens(c) ==
  /\ ~clients[c].accepted
  /\ \A d \in HeldIds : d < c => clients[d].accepted
  /\ Apply(handleNewConnection(Now, c))
  /\ event' = Event("open", c, <<chatHost>>)
  /\ UNCHANGED <<constructed, rosterChunks>>

\* a tick that finds no address leaves everything as it is
CheckConfig(c) ==
  /\ clients[c].waiting
  /\ ~Unconfigured(Now)
  /\ Apply(checkConfig(Now, c))
  /\ event' = Event("checkConfig", c, <<chatHost>>)
  /\ UNCHANGED <<constructed, rosterChunks>>

PatchedChatServer ==
  /\ ~servingClients
  /\ Apply(OnPatchedChatServer(Now, ChatTarget))
  /\ event' = Event("patchedChatServer", 0, <<>>)
  /\ UNCHANGED <<constructed, rosterChunks>>

ClientSends(c, data) ==
  /\ clients[c].accepted /\ clients[c].open
  /\ Arrived(ConnIds) < MaxChunks
  /\ Apply(handleIncomingSocketData([Now EXCEPT !.clients[c].arrived = Append(@, data)],
                                    c, data))
  /\ event' = Event("data", c, <<data, clients[c].proxied>>)
  /\ UNCHANGED <<constructed, rosterChunks>>

ClientLeaves(c) ==
  /\ clients[c].accepted /\ clients[c].open /\ ~clients[c].proxied
  /\ Apply(OnHeldClientClosed(Now, c))
  /\ event' = Event("clientLeft", c, <<>>)
  /\ UNCHANGED <<constructed, rosterChunks>>

DialOpens(c) ==
  /\ c \in accepting
  /\ constructed' = constructed \cup {c}
  /\ Apply(establishProxiedConnection(Now, c))
  /\ event' = Event("dialOpen", c, <<pendingData[c], connections>>)
  /\ UNCHANGED rosterChunks

DialFails(c) ==
  /\ c \in accepting
  /\ Apply(OnDialFailed(Now, c))
  /\ event' = Event("dialFailed", c, <<>>)
  /\ UNCHANGED <<constructed, rosterChunks>>

NextHold ==
  \/ \E c \in HeldIds : ClientOpens(c)
  \/ \E c \in HeldIds : CheckConfig(c)
  \/ PatchedChatServer
  \/ \E c \in HeldIds, data \in HoldChunks : ClientSends(c, data)
  \/ \E c \in HeldIds : ClientLeaves(c)
  \/ \E c \in HeldIds : DialOpens(c)
  \/ \E c \in HeldIds : DialFails(c)
  \/ \E newStatus \in HoldStatuses : TraySetStatus(newStatus)

SpecHold == InitHold /\ [][NextHold]_vars

\* ----------------------------------------------- two processes side by side
\* One connection in each of two processes that get the same chunks from the
\* client and from the server and the same updateStatus calls. The first is
\* enabled in mode Online; the second is disabled, with whatever mode the user
\* chose before. The run goes on while this is so: a chat command that changes
\* the mode or enables the second ends it.
TwinChunks ==
  {PresenceS2,
   Stanza(PresencePlain, ShowDnd, StatusHi, <<LeagueA>>, TRUE),
   PresenceLobby,
   MessageHi,
   MessageHi \o <<BadByte>>,
   MessageTo(MessageToFake, <<"h", "e", "l", "l", "o">>),
   MessageTo(MessageToFake, OfflinePlease)}

\* the second process about to run a handler: nothing written yet
Fresh(S) == [S EXCEPT !.io = <<>>]

OnlineBesideDisabled == status = PresenceStatus.Online /\ enabled /\ ~twin.enabled

InitTwin ==
  /\ status = PresenceStatus.Online
  /\ enabled = TRUE
  /\ connectToMuc = TRUE
  /\ connections = <<1>>
  /\ constructed = {1}
  /\ connected = [c \in ConnIds |-> TRUE]
  /\ lastPresence = [c \in ConnIds |-> <<>>]
  /\ insertedFakePlayer = [c \in ConnIds |-> FALSE]
  /\ sentFakePlayerPresence = [c \in ConnIds |-> FALSE]
  /\ valorantVersion = [c \in ConnIds |-> Null]
  /\ presencesSent = [c \in ConnIds |-> 0]
  /\ rosterChunks = [c \in ConnIds |-> 0]
  /\ event = Event("init", 0, <<>>)
  /\ io = <<>>
  /\ ConfigServed
  /\ Started
  /\ CertificateInUse
  /\ \E chosen \in Statuses :
       twin = [Solo(<<>>) EXCEPT !.enabled = FALSE, !.status = chosen]

TwinClientData(data) ==
  /\ OnlineBesideDisabled
  /\ connected[1] /\ twin.connected[1]
  /\ Apply([handleIncoming(Now, 1, data)
              EXCEPT !.twin = handleIncoming(Fresh(twin), 1, data)])
  /\ event' = Event("clientData", 1, data)
  /\ UNCHANGED <<constructed, rosterChunks>>

TwinServerData(data) ==
  /\ OnlineBesideDisabled
  /\ connected[1] /\ twin.connected[1]
  /\ Apply([handleOutgoing(Now, 1, data)
              EXCEPT !.twin = handleOutgoing(Fresh(twin), 1, data)])
  /\ event' = Event("serverData", 1, data)
  /\ rosterChunks' = [rosterChunks EXCEPT
                        ![1] = IF IncludesRoster(Utf8Decode(data)) /\ @ < 2 THEN @ + 1 ELSE @]
  /\ UNCHANGED constructed

\* connection.updateStatus(status) as toggleEnabled and setStatus call it: with
\* Online in both processes
TwinUpdateStatus ==
  /\ OnlineBesideDisabled
  /\ event.op # "updateStatus"
  /\ Apply([updateStatus(Now, 1, PresenceStatus.Online)
              EXCEPT !.twin = updateStatus(Fresh(twin), 1, PresenceStatus.Online)])
  /\ event' = Event("updateStatus", 1, <<PresenceStatus.Online>>)
  /\ UNCHANGED <<constructed, rosterChunks>>

NextTwin ==
  \/ \E data \in TwinChunks : TwinClientData(data)
  \/ \E data \in ServerChunks : TwinServerData(data)
  \/ TwinUpdateStatus

SpecTwin == InitTwin /\ [][NextTwin]_vars

\* ----------------------------------------------- handlers that may throw
\* One connection gets chunks from its client and from the server; in each
\* handler a statement of the try block throws or none does.
FaultChunks ==
  {PresenceS2, PresenceLobby, MessageHi, MessageHi \o <<BadByte>>,
   CutOff(PresenceS2, 2) \o <<BadByte>>,
   MessageTo(MessageToFake, OfflinePlease)}

InitFault ==
  /\ status \in Statuses
  /\ enabled \in BOOLEAN
  /\ connectToMuc = TRUE
  /\ connections = <<1>>
  /\ constructed = {1}
  /\ connected = [c \in ConnIds |-> TRUE]
  /\ lastPresence = [c \in ConnIds |-> <<>>]
  /\ insertedFakePlayer = [c \in ConnIds |-> FALSE]
  /\ sentFakePlayerPresence = [c \in ConnIds |-> FALSE]
  /\ valorantVersion = [c \in ConnIds |-> Null]
  /\ presencesSent = [c \in ConnIds |-> 0]
  /\ rosterChunks = [c \in ConnIds |-> 0]
  /\ event = Event("init", 0, <<>>)
  /\ io = <<>>
  /\ ConfigServed
  /\ Started
  /\ Single
  /\ CertificateInUse

IncomingData(data, thrown) ==
  /\ connected[1]
  /\ Apply(handleIncomingOr(Now, 1, data, thrown))
  /\ event' = Event("incoming", 1, <<data, thrown>>)
  /\ UNCHANGED <<constructed, rosterChunks>>

OutgoingData(data, thrown) ==
  /\ connected[1]
  /\ Apply(handleOutgoingOr(Now, 1, data, thrown))
  /\ event' = Event("outgoing", 1, <<data, thrown>>)
  /\ rosterChunks' = [rosterChunks EXCEPT
                        ![1] = IF IncludesRoster(Utf8Decode(data)) /\ @ < 2 THEN @ + 1 ELSE @]
  /\ UNCHANGED constructed

NextFault ==
  \/ \E data \in FaultChunks, thrown \in BOOLEAN : IncomingData(data, thrown)
  \/ \E data \in ServerChunks, thrown \in BOOLEAN : OutgoingData(data, thrown)

SpecFault == InitFault /\ [][NextFault]_vars

\* ----------------------------------------------- the introduction messages
\* Clients connect and are released one after another, the server sends each its
\* roster, connections close, the tray changes the status, and the timeout of
\* the introduction and the delays between its messages run out.
InitIntro == InitHold

\* the timeout of 10 s, or an `await this.delay(200)`, of run r has run out
IntroductionTimer(r) ==
  /\ r <= Len(introduction.runs)
  /\ introduction.runs[r] < 4
  /\ Apply(sendIntroductionMessages(Now, r))
  /\ event' = Event("introduction", 0, <<r, introduction.runs[r] + 1>>)
  /\ UNCHANGED <<constructed, rosterChunks>>

NextIntro ==
  \/ PatchedChatServer
  \/ \E c \in ConnIds : ClientOpens(c)
  \/ \E c \in ConnIds : CheckConfig(c)
  \/ \E c \in ConnIds : DialOpens(c)
  \/ \E c \in ConnIds : ServerData(c, RosterS4)
  \/ \E c \in ConnIds : SocketClosed(c)
  \/ \E r \in 1..MaxConns : IntroductionTimer(r)
  \/ \E newStatus \in HoldStatuses : TraySetStatus(newStatus)

SpecIntro == InitIntro /\ [][NextIntro]_vars

\* ----------------------------------------------- the PAS lookup, awaited
\* The same requests with the handler in its three parts: until fetch(url)
\* settles, until fetch(GEO_PAS_URL) settles when the lookup is made, and from
\* there to the response. The lookup is a fetch without a signal or a timer: it
\* settles when the PAS answers or the connection fails, and not before.
PasConfigs ==
  {UsualConfig,
   [UsualConfig EXCEPT !.affinityEnabled = JFalse],
   [UsualConfig EXCEPT !.affinities = JObj({})]}

PasUpstreams ==
  {[kind |-> "response", status |-> 200, content |-> [json |-> "object", config |-> cfg]] :
     cfg \in PasConfigs}
    \cup {[kind |-> "failure", status |-> 0, content |-> [json |-> "invalid", config |-> NoConfig]]}

\* await fetch(GEO_PAS_URL, ...): the handler waits for the PAS
awaitPas(S, id, authorization, up) ==
  [S EXCEPT !.requests[id] = [state |-> "awaitingPas", authorization |-> authorization,
                              up |-> up]]

\* fetch(url) has settled: the handler runs to its response, or to the lookup
UpstreamAnswers(id, up) ==
  /\ requests[id].state = "pending"
  /\ IF LooksUp(requests[id].authorization, up)
       THEN /\ Apply(awaitPas(Now, id, requests[id].authorization, up))
            /\ event' = Event("configLookup", id, <<requests[id].authorization, up>>)
       ELSE /\ Apply(handleRequest([Now EXCEPT !.requests[id] =
                                      [state |-> "done", authorization |-> FALSE]],
                                   id, requests[id].authorization, up, NoPas))
            /\ event' = Event("configResponse", id, <<requests[id].authorization, up, NoPas>>)
  /\ UNCHANGED <<constructed, rosterChunks>>

\* fetch(GEO_PAS_URL) has settled, one way or another
PasAnswers(id, pas) ==
  /\ requests[id].state = "awaitingPas"
  /\ Apply(handleRequest([Now EXCEPT !.requests[id] =
                            [state |-> "done", authorization |-> FALSE]],
                         id, requests[id].authorization, requests[id].up, pas))
  /\ event' = Event("configResponse", id,
                    <<requests[id].authorization, requests[id].up, pas>>)
  /\ UNCHANGED <<constructed, rosterChunks>>

NextPas ==
  \/ \E id \in RequestIds, authorization \in BOOLEAN : ConfigRequest(id, authorization)
  \/ \E id \in RequestIds, up \in PasUpstreams : UpstreamAnswers(id, up)
  \/ \E id \in RequestIds, pas \in PasOutcomes : PasAnswers(id, pas)

SpecPas == InitConfig /\ [][NextPas]_vars

\* the upstream's answer comes in the end and the handler goes on when it has
\* come; nothing makes the PAS answer
SpecPasFair ==
  SpecPas /\ WF_vars(\E id \in RequestIds, up \in PasUpstreams : UpstreamAnswers(id, up))

\* ----------------------------------------------- the Bun controller's timer
\* Clients connect and are released, the sockets of a connection report errors
\* and closes (an error is followed by the socket's close), and timeouts run out.
OutgoingSocketEvent(c, kind) ==
  /\ Running
  /\ c \in constructed /\ clients[c].proxied
  /\ connected[c] \/ "outgoing" \in closeEvents[c]
  /\ Cardinality(OnOutgoingSocket(Now, c, kind).timers) <= MaxTimers
  /\ Apply(OnOutgoingSocket(Now, c, kind))
  /\ event' = Event("outgoing", c, <<kind, connected[c], connections>>)
  /\ UNCHANGED <<constructed, rosterChunks>>

IncomingSocketEvent(c, kind) ==
  /\ Running
  /\ c \in constructed /\ clients[c].proxied
  /\ connected[c] \/ "incoming" \in closeEvents[c]
  /\ Apply(OnIncomingSocket(Now, c, kind))
  /\ event' = Event("incomingSocket", c, <<kind, connected[c], connections>>)
  /\ UNCHANGED <<constructed, rosterChunks>>

NextRemove ==
  \/ PatchedChatServer
  \/ \E c \in ConnIds : Running /\ ClientOpens(c)
  \/ \E c \in ConnIds : Running /\ CheckConfig(c)
  \/ \E c \in ConnIds : Running /\ DialOpens(c)
  \/ \E c \in ConnIds, kind \in {"error", "close"} : OutgoingSocketEvent(c, kind)
  \/ \E c \in ConnIds, kind \in {"error", "close"} : IncomingSocketEvent(c, kind)
  \/ \E t \in Timeouts : TimerFired(t)

SpecRemove == InitHold /\ [][NextRemove]_vars

\* ------------------------------------------- global presences and room presences
\* Two connections whose clients send the global presence and a presence to a
\* room in any order while the tray sets the status. The event notes, for every
\* connection, the last global presence (one without ' to=') written upstream.
InitRoom ==
  /\ status = PresenceStatus.Offline
  /\ enabled = TRUE
  /\ connectToMuc = TRUE
  /\ connections = [c \in ConnIds |-> c]
  /\ constructed = ConnIds
  /\ connected = [c \in ConnIds |-> TRUE]
  /\ lastPresence = [c \in ConnIds |-> <<>>]
  /\ insertedFakePlayer = [c \in ConnIds |-> FALSE]
  /\ sentFakePlayerPresence = [c \in ConnIds |-> FALSE]
  /\ valorantVersion = [c \in ConnIds |-> Null]
  /\ presencesSent = [c \in ConnIds |-> 0]
  /\ rosterChunks = [c \in ConnIds |-> 0]
  /\ event = Event("init", 0, <<<<>>, [c \in ConnIds |-> <<>>]>>)
  /\ io = <<>>
  /\ ConfigServed
  /\ Started
  /\ Single
  /\ CertificateInUse

RoomChunks == {PresenceS2, PresenceLobby}

\* the last global presence written upstream on c in the log, or `before`
RECURSIVE LastGlobal(_, _, _)
LastGlobal(log, c, before) ==
  IF log = <<>> THEN before
  ELSE LET e == log[Len(log)]
       IN  IF /\ e.conn = c /\ e.to = "upstream"
              /\ IncludesPresence(Utf8Decode(e.data)) /\ ~IncludesTo(Utf8Decode(e.data))
             THEN e.data
             ELSE LastGlobal(SubSeq(log, 1, Len(log) - 1), c, before)

GlobalsAfter(S) == [c \in ConnIds |-> LastGlobal(S.io, c, event.data[2][c])]

RoomClientData(c, data) ==
  /\ connected[c]
  /\ Apply(handleIncoming(Now, c, data))
  /\ event' = Event("clientData", c, <<data, GlobalsAfter(handleIncoming(Now, c, data))>>)
  /\ UNCHANGED <<constructed, rosterChunks>>

RoomSetStatus(newStatus) ==
  /\ Apply(setStatus(Now, newStatus))
  /\ event' = Event("setStatus", 0, <<newStatus, GlobalsAfter(setStatus(Now, newStatus))>>)
  /\ UNCHANGED <<constructed, rosterChunks>>

NextRoom ==
  \/ \E c \in ConnIds, data \in RoomChunks : RoomClientData(c, data)
  \/ \E newStatus \in Statuses : RoomSetStatus(newStatus)

SpecRoom == InitRoom /\ [][NextRoom]_vars

\* ------------------------------------------------------ words of the claims

\* the chunks the last handler wrote upstream, in order
Upstream == SelectSeq(io, LAMBDA e : e.to = "upstream")

\* the chunks the last handler wrote to a client, in order
ToClient == SelectSeq(io, LAMBDA e : e.to = "client")

HasTag(s, t) == \E i \in 1..Len(s) : s[i] = t

GameBlocks ==
  {<<"<league_of_legends>", "</league_of_legends>">>, <<"<valorant>", "</valorant>">>,
   <<"<bacon>", "</bacon>">>, <<"<lion>", "</lion>">>, <<"<keystone>", "</keystone>">>,
   <<"<riot_client>", "</riot_client>">>}

GameOpens == {b[1] : b \in GameBlocks}
GameEdges == GameOpens \cup {b[2] : b \in GameBlocks}

\* none of the game blocks and no <status> in s
Hidden(s) == \A t \in GameOpens \cup {"<status>"} : ~HasTag(s, t)

\* every <show>...</show> of s has the body word
ShowsAre(s, word) ==
  \A i \in 1..Len(s) :
    (s[i] = "<show>" /\ IndexFrom(s, i, "</show>") > 0)
      => SubSeq(s, i + 1, IndexFrom(s, i, "</show>") - 1) = word

\* the element opened at i holds text only and is closed
FlatAt(s, i, endTag) == SkipText(s, i + 1) <= Len(s) /\ s[SkipText(s, i + 1)] = endTag

\* the first game tag after index i, or "" when there is none
NextEdge(s, i) ==
  IF \E j \in (i + 1)..Len(s) : s[j] \in GameEdges
    THEN s[CHOOSE j \in (i + 1)..Len(s) :
             s[j] \in GameEdges /\ \A k \in (i + 1)..(j - 1) : s[k] \notin GameEdges]
    ELSE ""

\* A chunk that holds its elements whole: every game block is closed before another
\* game tag follows, and every <show> and <status> holds text only.
Regular(s) ==
  /\ \A i \in 1..Len(s) : \A b \in GameBlocks : s[i] = b[1] => NextEdge(s, i) = b[2]
  /\ \A i \in 1..Len(s) : s[i] = "<show>" => FlatAt(s, i, "</show>")
  /\ \A i \in 1..Len(s) : s[i] = "<status>" => FlatAt(s, i, "</status>")

\* the last event was a client chunk with '<presence' and without ' to=', handled
\* with the controller enabled and in the given mode
Handled(mode) ==
  /\ event.op = "clientData" /\ event.enabled /\ event.status = mode
  /\ IncludesPresence(Utf8Decode(event.data)) /\ ~IncludesTo(Utf8Decode(event.data))

\* what scenario S2 expects upstream
S2Offline == <<"<presence>", "<show>">> \o Offline \o <<"</show>", "<games>", "</games>", "</presence>">>

\* --------------------------------------------------------------------- C1

\* C1 as stated: every presence chunk without ' to=' that is handled while enabled
\* in mode Offline goes upstream as one chunk without any game block or <status>
\* and with every <show> body `offline`.
C1_AsStated ==
  Handled(PresenceStatus.Offline)
    => /\ Len(Upstream) = 1
       /\ Hidden(Upstream[1].data)
       /\ ShowsAre(Upstream[1].data, Offline)

\* C1, amended: the same for every such chunk that holds its elements whole (each
\* game block closed before the next game tag, <show> and <status> holding text
\* only); the S2 fixture goes upstream as
\* <presence><show>offline</show><games></games></presence>.
C1_OfflineHidesWholeBlocks ==
  /\ (Handled(PresenceStatus.Offline) /\ Regular(event.data))
       => /\ Len(Upstream) = 1
          /\ Hidden(Upstream[1].data)
          /\ ShowsAre(Upstream[1].data, Offline)
  /\ (Handled(PresenceStatus.Offline) /\ event.data = PresenceS2)
       => Upstream = <<[conn |-> event.conn, to |-> "upstream", data |-> S2Offline,
                        via |-> "rewrite"]>>

C1_Witness ==
  /\ Handled(PresenceStatus.Offline) /\ event.data = PresenceS2
  /\ Len(Upstream) = 1 /\ Upstream[1].data = S2Offline

\* --------------------------------------------------------------------- C2

League == "<league_of_legends>"

\* the indices of the League block opened at i: up to its closing tag, or to the end
LeagueBlock(s, i) ==
  {j \in (i + 1)..Len(s) : \A k \in (i + 1)..j : s[k] # "</league_of_legends>"}

\* some League block of s holds the tag t
LeagueHolds(s, t) ==
  \E i \in 1..Len(s) : s[i] = League /\ \E j \in LeagueBlock(s, i) : s[j] = t

\* every text-only <st> inside a League block of s has the body word
LeagueStsAre(s, word) ==
  \A i \in 1..Len(s) :
    s[i] = League =>
      \A j \in LeagueBlock(s, i) :
        (s[j] = "<st>" /\ FlatAt(s, j, "</st>")) => SubSeq(s, j + 1, SkipText(s, j + 1) - 1) = word

\* what Mobile is to leave of the chunk `data` in the chunk `out`
MobileView(data, out) ==
  /\ ShowsAre(out, Mobile)
  /\ HasTag(data, League) => HasTag(out, League)
  /\ LeagueStsAre(out, Mobile)
  /\ ~LeagueHolds(out, "<p>") /\ ~LeagueHolds(out, "<m>")
  /\ \A t \in (GameOpens \ {League}) \cup {"<status>"} : ~HasTag(out, t)

\* at most one League block, inside <games>, with at most one <p> and one <m>, each
\* holding text only
OneLeague(s) ==
  /\ Cardinality({i \in 1..Len(s) : s[i] = League}) <= 1
  /\ \A i \in 1..Len(s) :
       s[i] = League =>
         /\ \E g \in 1..(i - 1) : s[g] = "<games>"
         /\ Cardinality({j \in LeagueBlock(s, i) : s[j] = "<p>"}) <= 1
         /\ Cardinality({j \in LeagueBlock(s, i) : s[j] = "<m>"}) <= 1
         /\ \A j \in LeagueBlock(s, i) :
              /\ s[j] = "<p>" => FlatAt(s, j, "</p>")
              /\ s[j] = "<m>" => FlatAt(s, j, "</m>")

\* what scenario S3 expects upstream
S3Mobile ==
  <<"<presence>", "<show>">> \o Mobile \o <<"</show>", "<games>", League, "<st>">>
    \o Mobile \o <<"</st>", "</league_of_legends>", "</games>", "</presence>">>

\* C2 as stated: every presence chunk without ' to=' that is handled while enabled
\* in mode Mobile goes upstream with every <show> body `mobile`, its League block
\* kept with <st>mobile</st> and without <p> and <m>, and no other game block and
\* no <status>.
C2_AsStated ==
  Handled(PresenceStatus.Mobile)
    => Len(Upstream) = 1 /\ MobileView(event.data, Upstream[1].data)

\* C2, amended: the same for every such chunk that holds its elements whole and has
\* at most one League block, inside <games>, with at most one <p> and one <m>; the
\* S2 fixture goes upstream as the chunk of scenario S3.
C2_MobileKeepsLeague ==
  /\ (Handled(PresenceStatus.Mobile) /\ Regular(event.data) /\ OneLeague(event.data))
       => Len(Upstream) = 1 /\ MobileView(event.data, Upstream[1].data)
  /\ (Handled(PresenceStatus.Mobile) /\ event.data = PresenceS2)
       => Upstream = <<[conn |-> event.conn, to |-> "upstream", data |-> S3Mobile,
                        via |-> "rewrite"]>>

C2_Witness ==
  /\ Handled(PresenceStatus.Mobile) /\ event.data = PresenceS2
  /\ Len(Upstream) = 1 /\ Upstream[1].data = S3Mobile

\* --------------------------------------------------------------------- C3

\* the last event was a chunk from the client
FromClient == event.op = "clientData"

\* the handler wrote the chunk upstream as it came, and nothing else upstream
Verbatim == Len(Upstream) = 1 /\ Upstream[1].data = event.data

\* the tags of s, in order
TagsOf(s) == SelectSeq(s, LAMBDA a : a \in Tags)

\* every text-only open...close element of s has the body word
FlatBodiesAre(s, open, endTag, word) ==
  \A i \in 1..Len(s) :
    (s[i] = open /\ FlatAt(s, i, endTag)) => SubSeq(s, i + 1, SkipText(s, i + 1) - 1) = word

ValidUtf8(data) == ~HasTag(data, BadByte)

ToSomeone == FromClient /\ IncludesTo(Utf8Decode(event.data))

\* that chunk went the way of a presence: it holds '<presence' and the controller
\* was enabled
AsPresence == IncludesPresence(Utf8Decode(event.data)) /\ event.enabled

\* a presence to a room, with a status and a League block
PresenceRoom == Stanza(PresenceMuc, ShowDnd, StatusHi, <<LeagueA>>, TRUE)

FromServer(c) == event.op = "serverData" /\ event.conn = c

\* that chunk is the first on c that holds the roster marker
FirstRoster(c) == IncludesRoster(Utf8Decode(event.data)) /\ rosterChunks[c] = 1

\* out is data with the fake player's item right after the first roster marker
Spliced(data, out) ==
  out = SubSeq(data, 1, IndexFrom(data, 1, roster)) \o <<fakePlayer>>
          \o SubSeq(data, IndexFrom(data, 1, roster) + 1, Len(data))

\* C5 as stated: on every connection the first chunk from the server that holds
\* the roster marker reaches the client with the fake player's item spliced right
\* after the first marker and nothing else changed, and sets insertedFakePlayer;
\* every other chunk from the server reaches the client byte for byte.
C5_AsStated ==
  \A c \in ConnIds :
    FromServer(c) =>
      /\ Len(ToClient) = 1 /\ ToClient[1].conn = c
      /\ IF FirstRoster(c)
           THEN Spliced(event.data, ToClient[1].data) /\ insertedFakePlayer[c]
           ELSE ToClient[1].data = event.data
      /\ insertedFakePlayer[c] = (rosterChunks[c] > 0)

\* What holds of C5: the same, for a first roster chunk that is valid UTF-8; one
\* that is not reaches the client as its decoded text with the item spliced in.
C5_OnValidText ==
  \A c \in ConnIds :
    FromServer(c) =>
      /\ Len(ToClient) = 1 /\ ToClient[1].conn = c
      /\ IF FirstRoster(c)
           THEN /\ Spliced(Utf8Encode(Utf8Decode(event.data)), ToClient[1].data)
                /\ ValidUtf8(event.data) => Spliced(event.data, ToClient[1].data)
                /\ insertedFakePlayer[c]
           ELSE ToClient[1].data = event.data
      /\ insertedFakePlayer[c] = (rosterChunks[c] > 0)

\* a first roster chunk that ends inside a character has reached the client with
\* U+FFFD where the cut character began
C5_CutRosterSeen ==
  \E c \in ConnIds :
    /\ FromServer(c) /\ FirstRoster(c) /\ event.data = RosterCut
    /\ Len(ToClient) = 1 /\ ~Spliced(event.data, ToClient[1].data)
    /\ HasTag(ToClient[1].data, ReplChar) /\ ~HasTag(ToClient[1].data, BadByte)

\* a later chunk with the marker has reached the client as it came
C5_SecondRosterSeen ==
  \E c \in ConnIds :
    /\ FromServer(c) /\ rosterChunks[c] = 2 /\ event.data = RosterS4
    /\ Len(ToClient) = 1 /\ ToClient[1].data = RosterS4

\* --------------------------------------------------------------------- C6

\* the fake player's presences the last handler wrote
FakePresences == SelectSeq(io, LAMBDA e : e.via = "fakePresence")

\* C6 as stated: every connection gets the fake player's presence exactly once in
\* its lifetime: never twice, and a connection whose roster was patched has got it
\* by the time it is closed.
C6_AsStated ==
  \A c \in constructed :
    /\ presencesSent[c] <= 1
    /\ (~connected[c] /\ insertedFakePlayer[c]) => presencesSent[c] = 1

\* C6, amended: a connection gets the fake player's presence at most once, and
\* only after its roster was patched; the presence is written to the client as the
\* last write of the handler of a chunk from that client, and once a chunk from
\* the client has been handled on a patched connection the presence has been sent.
C6_PresenceAtMostOnce ==
  /\ \A c \in constructed :
       /\ presencesSent[c] <= 1
       /\ sentFakePlayerPresence[c] = (presencesSent[c] = 1)
       /\ sentFakePlayerPresence[c] => insertedFakePlayer[c]
       /\ (FromClient /\ event.conn = c /\ insertedFakePlayer[c]) => presencesSent[c] = 1
  /\ Len(FakePresences) <= 1
  /\ Len(FakePresences) = 1
       => /\ FromClient
          /\ io[Len(io)] = [conn |-> event.conn, to |-> "client",
                            data |-> Utf8Encode(FakePresence(valorantVersion[event.conn])),
                            via |-> "fakePresence"]

\* the presence has just been written, on the first chunk from the client after
\* the roster was patched
C6_Witness ==
  /\ FromClient /\ insertedFakePlayer[event.conn] /\ presencesSent[event.conn] = 1
  /\ Len(FakePresences) = 1 /\ FakePresences[1].conn = event.conn

\* a patched connection was closed before its client sent anything
C6_ClosedUnannounced ==
  \E c \in constructed :
    ~connected[c] /\ insertedFakePlayer[c] /\ presencesSent[c] = 0

\* --------------------------------------------------------------------- C7

\* the last event was a chunk from the client that holds the fake player's JID and
\* did not go the way of a presence
ToFakePlayer ==
  FromClient /\ IncludesFakeJid(Utf8Decode(event.data)) /\ ~AsPresence

\* the calls of handleChatMessage the last handler made
ChatCalls == SelectSeq(io, LAMBDA e : e.to = "call" /\ e.via = "handleChatMessage")

\* the messages of the fake player the last handler wrote to the client of c
FakeMessages(c) == SelectSeq(io, LAMBDA e : e.via = "fakeMessage" /\ e.conn = c)

\* the message of scenario S5
OfflinePleaseChunk == MessageTo(MessageToFake, OfflinePlease)

\* C7: a chunk from the client that holds the fake player's JID and does not go the
\* way of a presence is not written upstream (what goes upstream in its handler is
\* replayed presences only) and is passed once to handleChatMessage, before
\* anything else happens; any other chunk is not passed to it.  S5: on a patched
\* connection `Offline please` sets status Offline and enabled, and that client
\* gets the one message `You are now appearing offline.`.
C7_CommandsNotForwarded ==
  /\ ToFakePlayer
       => /\ \A k \in 1..Len(Upstream) :
               Upstream[k].via \in {"rewrite", "muc"} /\ Upstream[k].data # event.data
          /\ ChatCalls = <<[conn |-> event.conn, to |-> "call",
                            data |-> <<Utf8Decode(event.data)>>, via |-> "handleChatMessage"]>>
          /\ io[1] = ChatCalls[1]
  /\ ~ToFakePlayer => ChatCalls = <<>>
  /\ (ToFakePlayer /\ event.data = OfflinePleaseChunk /\ insertedFakePlayer[event.conn])
       => /\ status = PresenceStatus.Offline /\ enabled
          /\ FakeMessages(event.conn)
               = <<[conn |-> event.conn, to |-> "client",
                    data |-> Utf8Encode(ChatMessage("You are now appearing offline.")),
                    via |-> "fakeMessage"]>>

\* scenario S5 has happened: the mode was not Offline, the roster was patched, and
\* `Offline please` made the mode Offline and was answered
C7_Witness ==
  /\ ToFakePlayer /\ event.data = OfflinePleaseChunk /\ insertedFakePlayer[event.conn]
  /\ event.status # PresenceStatus.Offline /\ status = PresenceStatus.Offline
  /\ Upstream = <<>> /\ Len(ChatCalls) = 1 /\ Len(FakeMessages(event.conn)) = 1

\* --------------------------------------------------------------------- C8

\* the calls of updateStatus the last handler made
UpdateCalls == SelectSeq(io, LAMBDA e : e.to = "call" /\ e.via = "updateStatus")

\* the messages of the fake player the last handler wrote
AllFakeMessages == SelectSeq(io, LAMBDA e : e.via = "fakeMessage")

\* the connections of the list whose roster was patched and that are open
Patched == SelectSeq(connections, LAMBDA c : insertedFakePlayer[c] /\ connected[c])

\* updateStatus(m) was called once on every connection of the list, in the order of
\* the list; a call on an open connection with a presence to replay is followed at
\* once by that connection's write upstream, which carries m in its <show>; no
\* other call is, and nothing else went upstream
Broadcast(m) ==
  /\ UpdateCalls = [i \in 1..Len(connections) |->
                      [conn |-> connections[i], to |-> "call", data |-> <<m>>,
                       via |-> "updateStatus"]]
  /\ \A k \in 1..Len(io) :
       io[k].via = "updateStatus" =>
         IF lastPresence[io[k].conn] # <<>> /\ connected[io[k].conn]
           THEN /\ k < Len(io)
                /\ io[k + 1].to = "upstream" /\ io[k + 1].conn = io[k].conn
                /\ io[k + 1].via = "rewrite" => ShowsAre(io[k + 1].data, StatusText(m))
           ELSE k = Len(io) \/ io[k + 1].to # "upstream"
  /\ \A k \in 1..Len(io) :
       io[k].to = "upstream" => (k > 1 /\ io[k - 1].via = "updateStatus")

\* every patched open connection got the one message, in the order of the list
MessagesAre(text) ==
  AllFakeMessages = [i \in 1..Len(Patched) |->
                       [conn |-> Patched[i], to |-> "client",
                        data |-> Utf8Encode(ChatMessage(text)), via |-> "fakeMessage"]]

\* no call of updateStatus and no replay comes after a message of the fake player
MessagesLast ==
  \A i, j \in 1..Len(io) :
    (io[i].via = "fakeMessage" /\ (io[j].via = "updateStatus" \/ io[j].to = "upstream"))
      => j < i

\* `You are now appearing <label>.`
NowAppearingText(m) ==
  IF m = PresenceStatus.Online THEN "You are now appearing online."
  ELSE IF m = PresenceStatus.Offline THEN "You are now appearing offline."
  ELSE "You are now appearing mobile."

\* the last event was setStatus(m): from the tray, or typed to the fake player
SetModeDone(m) ==
  \/ event.op = "setStatus" /\ event.data = <<m>>
  \/ /\ ToFakePlayer
     /\ event.data = MessageTo(MessageToFake,
                       IF m = PresenceStatus.Online THEN <<"g", "o", " ">> \o Online
                       ELSE IF m = PresenceStatus.Offline THEN OfflinePlease
                       ELSE <<"M", "O", "B", "I", "L", "E">>)

\* C8: setStatus(m), from any status and enabled flag, leaves status = m and enabled
\* true, calls updateStatus(m) once on every connection of the list, and only after
\* all those calls and their replays writes `You are now appearing <label>.` to
\* the patched connections, the label being online, offline or mobile.
C8_SetMode ==
  \A m \in Statuses :
    SetModeDone(m) =>
      /\ status = m /\ enabled
      /\ Broadcast(m)
      /\ MessagesAre(NowAppearingText(m))
      /\ MessagesLast

\* setStatus changed the status and enabled a disabled controller, two connections
\* replayed their presences, and the messages followed
C8_Witness ==
  /\ event.op = "setStatus" /\ ~event.enabled /\ event.status # status
  /\ status = PresenceStatus.Mobile
  /\ Len(UpdateCalls) = MaxConns /\ Len(Upstream) >= 2 /\ Len(AllFakeMessages) >= 1
  /\ io[Len(io)].via = "fakeMessage"

\* --------------------------------------------------------------------- C9

\* the last event was toggleEnabled(): from the tray, or `enable` typed while
\* disabled, or `disable` typed while enabled
ToggleDone ==
  \/ event.op = "toggleEnabled"
  \/ /\ ToFakePlayer /\ ~event.enabled
     /\ event.data = MessageTo(MessageToFake, <<"E", "n", "a", "b", "l", "e", "d", "?">>)
  \/ /\ ToFakePlayer /\ event.enabled
     /\ event.data = MessageTo(MessageToFake, Disable \o <<" ", "i", "t">>)

\* one call: enabled is flipped, status is kept, and updateStatus is broadcast with
\* status when now enabled and Online when now disabled
ToggledOnce ==
  ToggleDone =>
    /\ enabled = ~event.enabled /\ status = event.status
    /\ Broadcast(IF enabled THEN status ELSE PresenceStatus.Online)

\* two calls in a row: the second leaves the pair the first one found
ToggledTwice ==
  (event.op = "toggleEnabled" /\ event'.op = "toggleEnabled")
    => (status' = event.status /\ enabled' = event.enabled)

\* C9: toggleEnabled flips enabled and keeps status, so that two calls in a row
\* restore the pair (status, enabled); each call broadcasts updateStatus to every
\* connection with status when now enabled and Online when now disabled.
C9_ToggleKeepsMode == []ToggledOnce /\ [][ToggledTwice]_vars

\* a toggle has enabled a disabled offline controller, and the connections
\* replayed their presences as offline
C9_Witness ==
  /\ event.op = "toggleEnabled" /\ ~event.enabled /\ enabled
  /\ status = PresenceStatus.Offline
  /\ Len(UpdateCalls) = MaxConns /\ UpdateCalls[1].data = <<PresenceStatus.Offline>>
  /\ Len(Upstream) >= 1 /\ Upstream[1].data = S2Offline

\* -------------------------------------------------------------------- C10

\* the chunk passed to handleChatMessage holds the word, in any case
Has(word) == IncludesWord(toLowerCase(Utf8Decode(event.data)), word)

\* the handler set the status: setStatus(m) ran, once
Became(m) ==
  /\ status = m /\ enabled
  /\ Broadcast(m) /\ MessagesAre(NowAppearingText(m)) /\ MessagesLast

\* the handler toggled: toggleEnabled() ran, once
Toggled ==
  /\ enabled = ~event.enabled /\ status = event.status
  /\ Broadcast(IF enabled THEN status ELSE PresenceStatus.Online)
  /\ MessagesAre(IF enabled THEN "Deceive is now enabled." ELSE "Deceive is now disabled.")
  /\ MessagesLast

\* the handler only answered: status and enabled are as they were, no connection
\* was asked to replay, and every patched connection got the one message
Replied(text) ==
  /\ status = event.status /\ enabled = event.enabled
  /\ UpdateCalls = <<>> /\ Upstream = <<>>
  /\ MessagesAre(text)

\* the handler did nothing
Silent ==
  /\ status = event.status /\ enabled = event.enabled
  /\ UpdateCalls = <<>> /\ Upstream = <<>> /\ AllFakeMessages = <<>>

\* `You are appearing <label>.`
AppearingText(m) ==
  IF m = PresenceStatus.Online THEN "You are appearing online."
  ELSE IF m = PresenceStatus.Offline THEN "You are appearing offline."
  ELSE "You are appearing mobile."

\* a message to the fake player with both `online` and `offline`
OnlineNotOffline ==
  MessageTo(MessageToFake, Online \o <<" ", "n", "o", "t", " ">> \o Offline)

\* C10: handleChatMessage runs at most one command per chunk, the first of offline,
\* mobile, online, enable, disable, status, help that the chunk holds in any case:
\* a chunk with `offline` and `online` sets Offline; `enable` toggles only when
\* disabled and `disable` only when enabled, and otherwise only an `already`
\* message is sent; `status` and `help` only answer; a chunk with none of the
\* words changes nothing and sends nothing.
C10_CommandPriority ==
  /\ ToFakePlayer =>
       IF Has(Offline) THEN Became(PresenceStatus.Offline)
       ELSE IF Has(Mobile) THEN Became(PresenceStatus.Mobile)
       ELSE IF Has(Online) THEN Became(PresenceStatus.Online)
       ELSE IF Has(Enable)
         THEN IF event.enabled THEN Replied("Deceive is already enabled.") ELSE Toggled
       ELSE IF Has(Disable)
         THEN IF event.enabled THEN Toggled ELSE Replied("Deceive is already disabled.")
       ELSE IF Has(StatusWord) THEN Replied(AppearingText(event.status))
       ELSE IF Has(Help)
         THEN Replied("Commands: online, offline, mobile, enable, disable, status, help")
       ELSE Silent
  /\ (ToFakePlayer /\ event.data = OnlineNotOffline) => status = PresenceStatus.Offline

\* a message with `online` and `offline` has set an online controller to Offline,
\* and the patched connections were told so
C10_Witness ==
  /\ ToFakePlayer /\ event.data = OnlineNotOffline
  /\ event.status = PresenceStatus.Online /\ status = PresenceStatus.Offline
  /\ Len(AllFakeMessages) = MaxConns
  /\ AllFakeMessages[1].data = Utf8Encode(ChatMessage("You are now appearing offline."))

\* -------------------------------------------------------------------- C11

\* what a connection keeps between handlers
ConnState == <<connected, lastPresence, insertedFakePlayer, sentFakePlayerPresence,
               valorantVersion>>

\* this step is a call of updateStatus that repeats the call before it
RepeatsUpdate ==
  /\ event.op = "updateStatus" /\ event'.op = "updateStatus"
  /\ event'.data[1] = event.data[1]

\* the repeated call leaves the connection as the first call left it and writes
\* upstream what the first call wrote
SameAsOnce == RepeatsUpdate => (ConnState' = ConnState /\ io' = io)

\* a call on a connection without a presence of its client changes nothing and
\* writes nothing
NoPresenceNoOp ==
  (event'.op = "updateStatus" /\ lastPresence[event'.conn] = <<>>)
    => /\ ConnState' = ConnState
       /\ \A k \in 1..Len(io') : io'[k].to = "call"

\* C11: updateStatus(m) called twice in a row with the same m, no chunk of the
\* client in between, leaves the connection in the state one call leaves and
\* delivers upstream the presence one call delivers; on a connection that has
\* seen no presence of its client it writes nothing and changes nothing.
C11_UpdateIdempotent == [][SameAsOnce /\ NoPresenceNoOp]_vars

\* a repeated updateStatus(mobile) has replayed a presence with a VALORANT block,
\* whose version the connection has kept
C11_Witness ==
  /\ event.op = "updateStatus" /\ event.data = <<PresenceStatus.Mobile, 2>>
  /\ lastPresence[1] # <<>> /\ valorantVersion[1] = ValorantRelease
  /\ Len(Upstream) = 1 /\ ~HasTag(Upstream[1].data, "<valorant>")
  /\ HasTag(lastPresence[1], "<valorant>")

\* an updateStatus on a connection that has seen no presence has written nothing
C11_NoOpSeen ==
  /\ event.op = "updateStatus" /\ lastPresence[1] = <<>> /\ Len(io) = 1

\* -------------------------------------------------------------------- C12

\* the last event was the ConfigProxy answering a request
Answered == event.op = "configResponse"

\* the request's Authorization header, the upstream's answer and the PAS outcome
AuthOf == event.data[1]
UpOf == event.data[2]
PasOf == event.data[3]

\* the responses the last handler returned
Responses == SelectSeq(io, LAMBDA e : e.via = "response")

\* the upstream answered 2xx with a JSON object
Parsed == Answered /\ UpOf.kind = "response" /\ Ok(UpOf.status) /\ UpOf.content.json = "object"

\* ... that holds a string chat.host and a number chat.port
Rewritable ==
  Parsed /\ UpOf.content.config.host.t = "string" /\ UpOf.content.config.port.t = "number"

\* the body is JSON with chat.host 127.0.0.1, chat.port the chat listener's port,
\* and the keys of chat.affinities, all with the value 127.0.0.1
Redirected(body) ==
  /\ body.content.json = "object"
  /\ body.content.config.host = JStr(Localhost)
  /\ body.content.config.port = JNum(ChatListenerPort)
  /\ UpOf.content.config.affinities.t = "object"
       => /\ body.content.config.affinities.t = "object"
          /\ {p[1] : p \in body.content.config.affinities.o}
               = {p[1] : p \in UpOf.content.config.affinities.o}
          /\ \A p \in body.content.config.affinities.o : p[2] = Localhost

\* C12 as stated: whenever the upstream answers 2xx with a JSON body that holds a
\* string chat.host and a number chat.port, whatever chat.affinities is, the body
\* returned has chat.host 127.0.0.1, chat.port the chat listener's port and every
\* key of chat.affinities mapped to 127.0.0.1.
C12_AsStated == Rewritable => (Len(Responses) = 1 /\ Redirected(Responses[1].data.body))

\* what holds of C12: the same, unless chat.affinities is null
C12_UnlessNull ==
  (Rewritable /\ UpOf.content.config.affinities.t # "null")
    => (Len(Responses) = 1 /\ Redirected(Responses[1].data.body))

\* a config with chat.affinities null was returned as it came, with the real
\* chat.host in it, and nothing was emitted
C12_NullAffinitiesSeen ==
  /\ Rewritable /\ UpOf.content.config.affinities.t = "null"
  /\ Len(Responses) = 1 /\ Responses[1].data.status = 200
  /\ Responses[1].data.body = [text |-> "original", content |-> UpOf.content]
  /\ Responses[1].data.body.content.config.host = JStr(HostDefault)
  /\ Len(io) = 1 /\ emitted = 0

\* a config with two affinities was returned with all three hosts replaced
C12_RedirectedSeen ==
  /\ Rewritable /\ Cardinality(UpOf.content.config.affinities.o) = 2
  /\ Len(Responses) = 1 /\ Redirected(Responses[1].data.body)

\* -------------------------------------------------------------------- C13

\* the 'patchedChatServer' events the last handler emitted
Emits == SelectSeq(io, LAMBDA e : e.to = "call" /\ e.via = "patchedChatServer")

\* the affinity lookup gave a host: the feature is on, the request had an
\* Authorization header, the PAS payload names an affinity, and the upstream's
\* chat.affinities has an entry for it
Resolved ==
  /\ UpOf.content.config.affinityEnabled = JTrue /\ AuthOf
  /\ PasOf.kind = "payload"
  /\ UpOf.content.config.affinities.t = "object"
  /\ \E p \in UpOf.content.config.affinities.o : p[1] = PasOf.affinity /\ p[2] # ""

\* the host of that entry, as the upstream sent it
ResolvedHost ==
  (CHOOSE p \in UpOf.content.config.affinities.o : p[1] = PasOf.affinity)[2]

\* C13: a 'patchedChatServer' event is emitted only for a parsed 2xx config of
\* which a string host and a non-zero number port were read; its port is the
\* upstream's chat.port and its host is the upstream's chat.affinities[aff] when
\* the affinity lookup gave one, and the upstream's chat.host otherwise: never
\* the loopback address or the chat listener's port that the body was given.
C13_TargetIsRealEndpoint ==
  Answered =>
    /\ Len(Emits) <= 1
    /\ Len(Emits) = 1 =>
         /\ Parsed
         /\ UpOf.content.config.port.t = "number" /\ UpOf.content.config.port.n # 0
         /\ Emits[1].data[1].chatPort = UpOf.content.config.port.n
         /\ IF Resolved
              THEN Emits[1].data[1].chatHost = ResolvedHost
              ELSE /\ UpOf.content.config.host.t = "string"
                   /\ Emits[1].data[1].chatHost = UpOf.content.config.host.s
         /\ Emits[1].data[1].chatHost \notin {Localhost, ""}
         /\ Responses[1].data.body.content.config.port = JNum(ChatListenerPort)

\* the player's affinity host was emitted with the upstream's port, while the body
\* returned names the loopback address for every affinity
C13_Witness ==
  /\ Answered /\ Resolved /\ Len(Emits) = 1
  /\ UpOf.content.config.host = JStr(HostDefault)
  /\ Emits[1].data[1] = [chatHost |-> HostNA, chatPort |-> 5223]
  /\ Redirected(Responses[1].data.body)

\* the default host was emitted because the PAS payload names an affinity the
\* config has no entry for
C13_FallbackSeen ==
  /\ Answered /\ ~Resolved /\ PasOf.kind = "payload" /\ PasOf.affinity = "asia"
  /\ Len(Emits) = 1 /\ Emits[1].data[1] = [chatHost |-> HostDefault, chatPort |-> 5223]

\* -------------------------------------------------------------------- C14

\* a step that writes the controller's chat target is the first one to do so
WritesTargetOnce ==
  (chatHost' # chatHost \/ chatPort' # chatPort)
    => (~servingClients /\ servingClients' /\ chatHost = Null /\ chatPort = 0)

\* once the target is written it stays
TargetStays == servingClients => (servingClients' /\ chatHost' = chatHost /\ chatPort' = chatPort)

\* C14: the controller's chat target (chatHost, chatPort) is written at most once,
\* by the first config response that emits one; later responses, whatever host or
\* port they resolve, leave it as it is.
C14_TargetWrittenOnce == [][WritesTargetOnce /\ TargetStays]_vars

\* a second response has resolved another host, and the controller kept the first
C14_Witness ==
  /\ Answered /\ emitted = 2 /\ Len(Emits) = 1
  /\ Emits[1].data[1].chatHost = HostNA
  /\ chatHost = HostDefault /\ chatPort = 5223 /\ servingClients

\* a second response has named another port, and the controller kept the first
C14_OtherPortSeen ==
  /\ Answered /\ emitted = 2 /\ Len(Emits) = 1
  /\ Emits[1].data[1].chatPort = 443 /\ chatPort = 5223 /\ servingClients

\* -------------------------------------------------------------------- C15

\* C15 as stated: over any sequence of requests, sequential or overlapping, that
\* each yield a host and a port, the ConfigProxy emits 'patchedChatServer' for the
\* first one only: at most one event in the life of the process.
C15_AsStated == emitted <= 1

\* a second request that yields a host and a port has been answered, and the
\* event was emitted for it as well
C15_SecondEmitSeen ==
  /\ Answered /\ emitted = 2 /\ Len(Emits) = 1
  /\ \A id \in {1, 2} : requests[id].state = "done"

\* what holds of C15: an event is emitted once per answered request at most, and
\* only its first emission reaches the controller
C15_OncePerRequest ==
  /\ emitted <= Cardinality({id \in RequestIds : requests[id].state = "done"})
  /\ servingClients = (emitted > 0)

\* -------------------------------------------------------------------- C16

\* C16: the ConfigProxy answers every request once: 502 when the upstream request
\* fails; the upstream's status with the upstream's body as it came, and
\* Content-Type application/json, when the upstream's status is not 2xx; and 200
\* with Content-Type application/json otherwise.  In the first two cases nothing
\* is rewritten and no 'patchedChatServer' is emitted.
C16_StatusAndType ==
  Answered =>
    /\ Len(Responses) = 1 /\ Responses[1].conn = event.conn
    /\ IF UpOf.kind = "failure"
         THEN /\ Responses[1].data.status = 502
              /\ Responses[1].data.body.text = "Bad Gateway"
              /\ Emits = <<>>
         ELSE IF ~(UpOf.status \in 200..299)
           THEN /\ Responses[1].data.status = UpOf.status
                /\ Responses[1].data.contentType = "application/json"
                /\ Responses[1].data.body = [text |-> "original", content |-> UpOf.content]
                /\ Emits = <<>>
           ELSE /\ Responses[1].data.status = 200
                /\ Responses[1].data.contentType = "application/json"

\* a 404 of the upstream was relayed with a body that would otherwise have been
\* rewritten
C16_Witness ==
  /\ Answered /\ UpOf.kind = "response" /\ UpOf.status = 404
  /\ UpOf.content.config = UsualConfig
  /\ Len(Responses) = 1 /\ Responses[1].data.status = 404
  /\ Responses[1].data.body.content.config.host = JStr(HostDefault)
  /\ emitted = 0

\* a failed upstream request was answered with 502
C16_BadGatewaySeen ==
  /\ Answered /\ UpOf.kind = "failure"
  /\ Len(Responses) = 1 /\ Responses[1].data.status = 502

\* a 204 of the upstream was answered with 200
C16_NoContentSeen ==
  /\ Answered /\ UpOf.kind = "response" /\ UpOf.status = 204
  /\ Len(Responses) = 1 /\ Responses[1].data.status = 200

\* ---------------------------------------------------------------------- C17
Once == [incoming |-> 1, outgoing |-> 1]

Never == [incoming |-> 0, outgoing |-> 0]

\* the connection objects there are: the one at c, while no new one is awaited there
Objects == constructed

\* C17: closing a ProxiedConnection closes both endpoints exactly once: whatever
\* close and error events of the client's and the upstream's socket arrive, in
\* whatever order, before or after a stop() by the controller, each of the two
\* sockets of a connection that is closed has been destroyed once and the
\* connection has told the controller once that it closed; a connection that is
\* open has had neither.
C17_ClosedOnce ==
  \A c \in Objects :
    /\ destroyed[c] = IF connected[c] THEN Never ELSE Once
    /\ notified[c] = IF connected[c] THEN 0 ELSE 1

\* a socket event arrives at a connection that is closed already
C17_Witness ==
  /\ event.op = "socket"
  /\ ~event.data[3]
  /\ destroyed[event.conn] = Once
  /\ notified[event.conn] = 1

\* stop() closes connections, one of which had been closed by its sockets before
C17_StopSeen ==
  /\ event.op \in Signals \cup {"trayQuit", "timer"}
  /\ event.data[Len(event.data)] # <<>>
  /\ \E c \in Objects : RemoveFrom(event.data[Len(event.data)], c) = event.data[Len(event.data)]

\* ---------------------------------------------------------------------- C18
\* the connection set becomes empty in this step
BecomesEmpty == connections # <<>> /\ connections' = <<>>

\* C18, as the specification states it: whenever the connection set becomes empty
\* an idle timeout of 60 s is armed, and any new client connection cancels it, so
\* that a timeout that was armed before a connection came in never runs after it.
C18_AsStated ==
  event.op = "timer" => ~event.data[1].outlived

\* what the code keeps of it: the set becoming empty arms a timeout of 60 s and
\* stores its handle, and a connection coming in clears the timeout whose handle
\* is stored and forgets the handle.
C18_HandleCancelled ==
  [][/\ BecomesEmpty =>
          \E t \in timers' :
            t.id = shutdownTimer' /\ t.delay = 60000 /\ ~t.outlived
     /\ event'.op \in {"incoming", "accept"} =>
          /\ shutdownTimer' = 0
          /\ \A t \in timers' : t.id # shutdownTimer /\ t.outlived]_vars

\* a timeout runs that was armed before a connection came in: its handle had been
\* overwritten by a later timeout's, and that one was cleared in its place
C18_StaleTimerRuns ==
  /\ event.op = "timer"
  /\ event.data[1].outlived
  /\ event.data[2] # <<>>

\* a connection comes in while a timeout is armed, and none stays armed
C18_CancelSeen ==
  /\ event.op = "incoming"
  /\ timers = {}
  /\ constructed # {}
  /\ connections = <<>>

\* ---------------------------------------------------------------------- C19
\* a timeout is armed in this step
Arms == \E t \in timers' : t \notin timers /\ ~t.outlived

\* the last connection of the set has just closed
IdleSince ==
  /\ Running
  /\ event.op = "socket" /\ event.data[3]
  /\ connections = <<>>

\* stop() has run and the process has exited with code 0
StoppedAndExited ==
  /\ exitCode = 0
  /\ connections = <<>>
  /\ \A c \in Objects : ~connected[c]

C19_NoneAcceptedSeen ==
  /\ event.op = "connectFailed"
  /\ servingClients
  /\ constructed = {}
  /\ Running

\* ---------------------------------------------------------------------- C20
\* the events whose handlers run stop()
StopPaths == Signals \cup {"trayQuit", "timer"}

\* every connection is out of the set and closed, each socket destroyed once
AllClosed ==
  /\ connections = <<>>
  /\ \A c \in Objects : ~connected[c] /\ destroyed[c] = Once

\* C20, as the specification states it: on every path that runs stop() (the idle
\* timeout, the tray's Quit, SIGINT and SIGTERM) the idle timeout is cancelled,
\* every connection of the set is closed at both ends, and the chat listener and
\* the ConfigProxy's listener are stopped.
C20_AsStated ==
  event.op \in StopPaths =>
    /\ timers = {}
    /\ AllClosed
    /\ ~listening.chat
    /\ ~listening.config

\* what the code does: on every path the connections are closed at both ends and
\* the process exits with code 0; the two listeners are stopped by the signal
\* handlers, not by stop(); a timeout is armed at exit exactly when stop() closed
\* a connection or left a timeout whose handle had been overwritten.
C20_PerPath ==
  event.op \in StopPaths =>
    /\ AllClosed
    /\ exitCode = 0
    /\ event.op \in Signals <=> ~listening.chat /\ ~listening.config
    /\ event.op \notin Signals => listening.chat /\ listening.config
    /\ event.data[Len(event.data)] # <<>> => \E t \in timers : t.id = shutdownTimer

\* the idle timeout or the tray's Quit ends the process with both listeners
\* never told to stop
C20_QuitLeavesListeners ==
  /\ event.op \in {"trayQuit", "timer"}
  /\ exitCode = 0
  /\ AllClosed
  /\ listening.config
  /\ event.data[Len(event.data)] # <<>>

\* a signal ends the process: connections closed, both listeners stopped
C20_SignalSeen ==
  /\ event.op \in Signals
  /\ event.data[1] # <<>>
  /\ AllClosed
  /\ ~listening.chat /\ ~listening.config

\* ---------------------------------------------------------------------- C21
\* C21: getCertificate returns the same certificate and private key on every call
\* within a process: all the calls that return have returned one and the same
\* pair, that pair is the cached one, and the pair was generated or loaded from
\* the disk at most once (a load that threw, or a pair whose saving threw, counted).
C21_SamePair ==
  /\ Cardinality(certificates.returned) <= 1
  /\ certificates.returned \subseteq {certificates.cachedCertificate}
  /\ certificates.generated + certificates.loaded <= 1
  /\ certificates.returned # {} => certificates.generated + certificates.loaded = 1

\* three calls have returned, the first of which generated the pair
C21_Witness ==
  /\ certificates.calls >= 3
  /\ certificates.generated = 1
  /\ certificates.returned = {Pem(1)}
  /\ certificates.last = Pem(1)

\* a call threw while saving the new pair, and the next call returned it
C21_AfterFailedSave ==
  /\ certificates.generated = 1
  /\ certificates.keyPath = NoFile
  /\ certificates.returned = {Pem(1)}

\* the pair was loaded from the disk, after a read that failed
C21_LoadedSeen ==
  /\ certificates.calls >= 3
  /\ certificates.loaded = 1
  /\ certificates.returned = {Pem(0)}

\* ---------------------------------------------------------------------- C22
\* the dials that the handler that ran last began
Dials == {i \in 1..Len(io) : io[i].via = "Bun.connect"}

\* C22: the chat server's address is set before any connection is in the
\* controller's set and before any dial to the chat server; while a client is
\* held (no ProxiedConnection yet) its chunks are in its buffer, in the order
\* they came, and none has been dispatched to the connection's handler; once it is
\* released, the handler has got every chunk that came, buffered or later, once
\* and in the order of arrival, and the buffer is gone.
C22_HeldInOrder ==
  /\ connections # <<>> \/ accepting # {} \/ Dials # {} => chatHost # Null /\ chatPort # 0
  /\ \A i \in Dials : io[i].data = <<<<ChatTarget.chatHost, ChatTarget.chatPort>>>>
  /\ \A c \in HeldIds :
       IF clients[c].proxied
         THEN clients[c].dispatched = clients[c].arrived /\ pendingData[c] = <<>>
         ELSE clients[c].dispatched = <<>> /\ pendingData[c] = clients[c].arrived

\* a client is released that sent two different chunks while it was held
C22_Witness ==
  /\ event.op = "dialOpen"
  /\ Len(event.data[1]) = 2
  /\ event.data[1][1] # event.data[1][2]
  /\ clients[event.conn].dispatched = event.data[1]
  /\ connections = <<event.conn>>

\* a chunk arrives after the release of a client that had buffered two
C22_LaterChunkSeen ==
  /\ event.op = "data"
  /\ event.data[2]
  /\ Len(clients[event.conn].dispatched) = 3

\* a client connects before the address is known and is made to wait
C22_WaitSeen ==
  /\ event.op = "checkConfig"
  /\ pendingData[event.conn] # <<>>
  /\ event.conn \in accepting

\* ---------------------------------------------------------------------- C23
\* C23, as the specification states it: when the dial to the chat server fails
\* for an accepted client, the client's socket is closed, so that no accepted
\* client socket stays open without an upstream peer, and no ProxiedConnection is
\* made for it.
C23_AsStated ==
  \A c \in HeldIds :
    clients[c].failed => ~clients[c].open /\ ~clients[c].proxied /\ c \notin constructed

\* what the code keeps of it: no ProxiedConnection is made for a client whose
\* dial failed, and it never enters the controller's set
C23_NoConnection ==
  \A c \in HeldIds :
    clients[c].failed =>
      /\ ~clients[c].proxied
      /\ c \notin constructed
      /\ RemoveFrom(connections, c) = connections
      /\ clients[c].dispatched = <<>>

\* the dial has failed and the client's socket is open, with a chunk it sent
\* still in its buffer
C23_OrphanSeen ==
  /\ event.op = "dialFailed"
  /\ clients[event.conn].failed
  /\ clients[event.conn].open
  /\ pendingData[event.conn] # <<>>
  /\ event.conn \notin accepting

\* ---------------------------------------------------------------------- C24
\* the connections of the controller's set
InSet(c) == RemoveFrom(connections, c) # connections

\* C24, as the specification states it: after every step each connection of the
\* controller's set has both endpoints open or both closing; a client that leaves
\* while it is held never gives an entry whose client endpoint is closed and
\* whose upstream endpoint is open.
C24_AsStated ==
  \A c \in HeldIds :
    InSet(c) =>
      \/ clients[c].open /\ connected[c] /\ destroyed[c] = Never
      \/ ~clients[c].open /\ ~connected[c]

\* what holds: an entry is made only by the open handler of a dial, and its
\* upstream endpoint is open then
C24_UpstreamOpen ==
  \A c \in HeldIds :
    InSet(c) => clients[c].proxied /\ c \in constructed /\ connected[c] /\ ~clients[c].failed

\* the client left while it was held, the dial opened afterwards, and the
\* connection is in the set with its client endpoint closed
C24_HalfOpenSeen ==
  /\ event.op = "dialOpen"
  /\ InSet(event.conn)
  /\ ~clients[event.conn].open
  /\ connected[event.conn]
  /\ destroyed[event.conn] = Never

\* ---------------------------------------------------------------------- C25
\* a close or error event of either socket arrives at a connection that is open
ClosesNow(c) ==
  /\ event'.op = "socket" /\ event'.conn = c
  /\ connected[c]

\* C25: when either socket of a connection closes or errors, whichever it is, the
\* other socket is closed too and the connection leaves the controller's set (in
\* the code, within the handler of that event); no connection that is closed is
\* in the set, and nothing is dialled again for it.
C25_ClosedAndRemoved ==
  /\ [][\A c \in ConnIds :
          ClosesNow(c) =>
            /\ ~connected'[c]
            /\ destroyed'[c] = Once
            /\ RemoveFrom(connections', c) = connections'
            /\ connections' = RemoveFrom(connections, c)
            /\ accepting' = accepting]_vars
  /\ [](\A c \in ConnIds : InSet(c) => connected[c] /\ destroyed[c] = Never)

\* the upstream's socket errors first, on one of two open connections
C25_Witness ==
  /\ event.op = "socket"
  /\ event.data = <<"outgoing", "error", TRUE>>
  /\ ~connected[event.conn]
  /\ destroyed[event.conn] = Once
  /\ Len(connections) = 1
  /\ ~InSet(event.conn)

\* the client's socket closes first
C25_ClientFirstSeen ==
  /\ event.op = "socket"
  /\ event.data = <<"incoming", "close", TRUE>>
  /\ destroyed[event.conn] = Once
  /\ closeEvents[event.conn] = {"outgoing"}
  /\ ~InSet(event.conn)

\* ---------------------------------------------------------------------- C26
\* the fake player's presence is written to c's client in this step
Announces(c) == \E i \in 1..Len(io') : io'[i].via = "fakePresence" /\ io'[i].conn = c

\* the patched roster chunk is written to c's client in this step
Patches(c) == \E i \in 1..Len(io') : io'[i].via = "roster" /\ io'[i].conn = c

\* C26: on every connection sentFakePlayerPresence implies insertedFakePlayer, and
\* the chunk with the fake player's roster item is written to the client before
\* the fake player's presence: the presence is written only by a handler that
\* starts after the handler that wrote the patched roster chunk has ended,
\* whatever the order of the chunks from the client and from the server.
C26_RosterBeforePresence ==
  /\ [](\A c \in ConnIds :
          sentFakePlayerPresence[c] => insertedFakePlayer[c] /\ rosterChunks[c] >= 1)
  /\ [][\A c \in ConnIds :
          /\ Announces(c) => insertedFakePlayer[c] /\ ~Patches(c)
          /\ Patches(c) => ~sentFakePlayerPresence'[c] /\ insertedFakePlayer'[c]]_vars

\* the client sent chunks before the roster came, got no presence then, and gets
\* it on its next chunk after the patched roster
C26_Witness ==
  /\ FromClient
  /\ Len(FakePresences) = 1 /\ FakePresences[1].conn = event.conn
  /\ insertedFakePlayer[event.conn] /\ sentFakePlayerPresence[event.conn]
  /\ lastPresence[event.conn] # <<>>
  /\ event.data = MessageHi

\* a chunk from the client is handled before the roster has come: no presence
C26_NotYetSeen ==
  /\ FromClient
  /\ ~insertedFakePlayer[event.conn]
  /\ lastPresence[event.conn] # <<>>
  /\ FakePresences = <<>>

\* ---------------------------------------------------------------------- C27
\* the last event was a chunk from the client that holds '<presence'
PresenceHandled == FromClient /\ IncludesPresence(Utf8Decode(event.data))

\* C27 as stated: after any chunk from the client that holds '<presence' was
\* handled, in any mode and enabled or not, the connection's lastPresence is that
\* chunk as it came.
C27_AsStated ==
  PresenceHandled => Utf8Encode(lastPresence[event.conn]) = event.data

\* what holds: a presence chunk handled while enabled is kept, as the text it
\* decodes to; one handled while disabled leaves lastPresence as it was
C27_KeptWhenEnabled ==
  [][\A c \in ConnIds :
       LET handled == event'.op = "clientData" /\ event'.conn = c
                        /\ IncludesPresence(Utf8Decode(event'.data))
       IN /\ handled /\ enabled => lastPresence'[c] = Utf8Decode(event'.data)
          /\ handled /\ ~enabled => lastPresence'[c] = lastPresence[c]]_vars

\* a presence chunk was handled while disabled: it went upstream as it came and
\* the connection has no presence to replay
C27_NotKeptSeen ==
  /\ PresenceHandled /\ ~event.enabled
  /\ event.data = PresenceS2
  /\ Verbatim
  /\ lastPresence[event.conn] = <<>>

\* ---------------------------------------------------------------------- C28
\* what a handler wrote to the two sockets, in order: the socket and the bytes
RECURSIVE Wire(_)
Wire(log) ==
  IF log = <<>> THEN <<>>
  ELSE IF Head(log).to \in {"upstream", "client"}
    THEN <<[to |-> Head(log).to, data |-> Head(log).data]>> \o Wire(Tail(log))
  ELSE Wire(Tail(log))

\* the fields of the connection in a process
ConnFields(S) ==
  [connected |-> S.connected[1], lastPresence |-> S.lastPresence[1],
   insertedFakePlayer |-> S.insertedFakePlayer[1],
   sentFakePlayerPresence |-> S.sentFakePlayerPresence[1],
   valorantVersion |-> S.valorantVersion[1]]

\* the last handler ran in both processes while the first was enabled in mode
\* Online and the second disabled
RanBeside == event.op # "init" /\ event.status = PresenceStatus.Online /\ event.enabled

\* C28 as stated: a process enabled in mode Online and a disabled one, given the
\* same chunks from the client and the server and the same updateStatus calls,
\* write the same bytes to the same sockets in every handler and keep the same
\* state of the connection.
C28_AsStated ==
  RanBeside => Wire(io) = Wire(twin.io) /\ ConnFields(Now) = ConnFields(twin)

\* what holds: the two agree on every chunk from the server and on every chunk
\* from the client without '<presence' and without the fake player's JID, and on
\* the roster and fake-presence flags; they part on what they keep and write for
\* a presence
C28_SameButPresence ==
  RanBeside =>
    /\ insertedFakePlayer[1] = twin.insertedFakePlayer[1]
    /\ sentFakePlayerPresence[1] = twin.sentFakePlayerPresence[1]
    /\ twin.lastPresence[1] = <<>>
    /\ SelectSeq(Wire(io), LAMBDA e : e.to = "client")
         = SelectSeq(Wire(twin.io), LAMBDA e : e.to = "client")
    /\ \/ event.op = "serverData"
       \/ /\ event.op = "clientData"
          /\ ~IncludesPresence(Utf8Decode(event.data))
          /\ ~IncludesFakeJid(Utf8Decode(event.data))
       => Wire(io) = Wire(twin.io)

\* the client's presence says `dnd`: the enabled process sends it upstream as
\* `chat` and keeps it, the disabled one sends it as it came and keeps nothing
C28_ShowRewrittenSeen ==
  /\ RanBeside /\ FromClient
  /\ event.data = Stanza(PresencePlain, ShowDnd, StatusHi, <<LeagueA>>, TRUE)
  /\ Len(Wire(io)) = 1 /\ Len(Wire(twin.io)) = 1
  /\ Wire(twin.io)[1].data = event.data
  /\ Wire(io)[1].data # event.data
  /\ ShowsAre(Wire(io)[1].data, Chat)
  /\ lastPresence[1] # <<>> /\ twin.lastPresence[1] = <<>>

\* updateStatus(Online) replays the kept presence in the enabled process and
\* writes nothing in the disabled one
C28_ReplayOnlyInOneSeen ==
  /\ RanBeside /\ event.op = "updateStatus"
  /\ Len(Wire(io)) = 1 /\ Wire(twin.io) = <<>>

\* ---------------------------------------------------------------------- C29
\* the places in the last handler's log where connection c read the controller's
\* status to rewrite a presence of its client
ModeReads(c) ==
  {i \in 1..Len(io) : io[i].conn = c /\ io[i].to = "upstream"
                        /\ io[i].via \in {"rewrite", "muc"}}

\* the places where c was pushed onto the controller's set
Pushes(c) == {i \in 1..Len(io) : io[i].conn = c /\ io[i].via = "connections.push"}

\* the last handler made connection c from a held client
Released(c) == event.op = "dialOpen" /\ event.conn = c

\* C29 as stated: a new connection reads the status only once it is in the
\* controller's set (every read of the handler that makes it comes after its
\* push), so that a change of status made meanwhile reaches it: when that handler
\* ends, a presence it has kept has gone upstream under the status that is then
\* in force.
C29_AsStated ==
  \A c \in HeldIds :
    Released(c) =>
      /\ \A i \in ModeReads(c) : \E j \in Pushes(c) : j < i
      /\ lastPresence[c] # <<>> /\ enabled /\ ~IncludesTo(lastPresence[c]) =>
           \E i \in ModeReads(c) :
             io[i].data = Utf8Encode(RewritePresence(lastPresence[c], status,
                                                     valorantVersion[c]).modified)

\* what holds: each presence is rewritten under the status in force when its
\* chunk is handled, also when the status changed while the client was held
C29_UnderStatusThen ==
  /\ \A c \in HeldIds :
       Released(c) /\ event.data[1] = <<PresenceS2>> /\ event.enabled =>
         /\ Cardinality(ModeReads(c)) = 1
         /\ \A i \in ModeReads(c) :
              io[i].data = Utf8Encode(RewritePresence(PresenceS2, event.status,
                                                      ValorantRelease).modified)
  /\ event.op = "data" /\ event.data = <<PresenceS2, TRUE>> /\ event.enabled =>
       /\ Cardinality(ModeReads(event.conn)) = 1
       /\ \A i \in ModeReads(event.conn) :
            io[i].data = Utf8Encode(RewritePresence(PresenceS2, event.status,
                                                    ValorantRelease).modified)

\* a held client sent its presence and then `offline please` to the fake player:
\* the flush rewrote the presence under Online, the command set Offline while the
\* connection was not yet in the set, and nothing replayed the presence
C29_MissedSeen ==
  /\ Released(1)
  /\ event.data[1] = <<PresenceS2, MessageTo(MessageToFake, OfflinePlease)>>
  /\ event.status = PresenceStatus.Online /\ status = PresenceStatus.Offline
  /\ connections = <<1>>
  /\ lastPresence[1] = PresenceS2
  /\ Cardinality(ModeReads(1)) = 1
  /\ \A i \in ModeReads(1) : \A j \in Pushes(1) : i < j
  /\ \A i \in ModeReads(1) : ShowsAre(io[i].data, Chat)

\* the status was changed while the client was held: its buffered presence goes
\* upstream under the new status
C29_ChangedWhileHeldSeen ==
  /\ Released(1)
  /\ event.data[1] = <<PresenceS2>>
  /\ event.status = PresenceStatus.Offline
  /\ \E i \in ModeReads(1) : ShowsAre(io[i].data, Offline)

\* ---------------------------------------------------------------------- C30
\* the last handler got a chunk from the client that is not for the fake player:
\* a presence to rewrite, or a chunk that does not name the fake player
ForUpstream ==
  /\ event.op = "incoming"
  /\ \/ IncludesPresence(Utf8Decode(event.data[1])) /\ event.enabled
     \/ ~IncludesFakeJid(Utf8Decode(event.data[1]))

\* a statement of the try block threw while the chunk was rewritten
ThrewRewriting ==
  /\ event.op = "incoming" /\ event.data[2]
  /\ IncludesPresence(Utf8Decode(event.data[1])) /\ event.enabled
  /\ ~IncludesTo(Utf8Decode(event.data[1]))

\* what the last handler wrote to the client for the server's chunk
Relayed == SelectSeq(io, LAMBDA e : e.to = "client" /\ e.via \in {"roster", "relay"})

\* C30 as stated: when the rewriting of a presence throws, or the patching of
\* the roster does, the chunk goes on to its destination as it came; so every
\* chunk that is not for the fake player is written to its destination exactly
\* once, rewritten or as it came.
C30_AsStated ==
  /\ ForUpstream => Len(Upstream) = 1
  /\ ThrewRewriting => Len(Upstream) = 1 /\ Upstream[1].data = event.data[1]
  /\ event.op = "outgoing" => Len(Relayed) = 1
  /\ event.op = "outgoing" /\ event.data[2] /\ rosterChunks[1] = 1
       /\ IncludesRoster(Utf8Decode(event.data[1]))
       => Len(Relayed) = 1 /\ Relayed[1].data = event.data[1]

\* what holds: a chunk from the client that is not for the fake player goes
\* upstream exactly once, and when its rewriting throws it goes as the text it
\* decodes to; a chunk from the server is written to the client once unless the
\* patching of the roster throws
C30_RewriteFailOpen ==
  /\ ForUpstream => Len(Upstream) = 1
  /\ ThrewRewriting =>
       /\ Len(Upstream) = 1
       /\ Upstream[1].data = Utf8Encode(Utf8Decode(event.data[1]))
       /\ lastPresence[1] = Utf8Decode(event.data[1])
  /\ event.op = "outgoing" =>
       IF event.data[2] /\ rosterChunks[1] = 1 /\ IncludesRoster(Utf8Decode(event.data[1]))
         THEN Relayed = <<>> /\ insertedFakePlayer[1]
         ELSE Len(Relayed) = 1

\* the patching of the first roster chunk threw: nothing was written to the
\* client, and the connection counts the fake player as inserted
C30_RosterDroppedSeen ==
  /\ event.op = "outgoing" /\ event.data = <<RosterS4, TRUE>>
  /\ rosterChunks[1] = 1
  /\ ToClient = <<>>
  /\ insertedFakePlayer[1]

\* the rewriting of a presence threw and the presence went upstream as it came
C30_OriginalSeen ==
  /\ ThrewRewriting /\ event.data[1] = PresenceS2
  /\ event.status = PresenceStatus.Offline
  /\ Len(Upstream) = 1 /\ Upstream[1].data = PresenceS2 /\ Upstream[1].via = "original"

\* ---------------------------------------------------------------------- C31
\* the messages of the fake player that the running handler writes to c's client
MessagesTo(c) == {i \in 1..Len(io') : io'[i].via = "fakeMessage" /\ io'[i].conn = c}

C31_NoneSeen ==
  /\ event.op = "toggleEnabled"
  /\ \A c \in ConnIds : ~insertedFakePlayer[c]
  /\ \A i \in 1..Len(io) : io[i].to # "client"

\* ---------------------------------------------------------------------- C32
\* the messages of the fake player in the last handler's log
IntroductionSaid == SelectSeq(io, LAMBDA e : e.via = "fakeMessage")

\* C32: the introduction is scheduled at most once in the life of the process,
\* by the handler that establishes the first connection, whatever is established
\* or closed later; when it runs it sends its four messages in their order, the
\* welcome, the note on invites, the note on the tray and `Have fun!`.
C32_IntroductionOnce ==
  /\ [](/\ Len(introduction.runs) <= 1
        /\ introduction.sentIntroductionText <=> introduction.runs # <<>>
        /\ introduction.runs = <<>> <=> constructed = {}
        /\ event.op = "introduction" =>
             /\ event.data[2] = introduction.runs[event.data[1]]
             /\ \A i \in 1..Len(IntroductionSaid) :
                  IntroductionSaid[i].data
                    = Utf8Encode(ChatMessage(IntroductionText(event.data[2], status)))
             /\ \A c \in ConnIds :
                  (c \in constructed /\ connected[c] /\ insertedFakePlayer[c])
                    => \E i \in 1..Len(IntroductionSaid) : IntroductionSaid[i].conn = c)
  /\ [][/\ Len(introduction.runs') > Len(introduction.runs) =>
             event'.op = "dialOpen" /\ constructed = {}
        /\ introduction.runs # <<>> /\ introduction.runs' # introduction.runs =>
             /\ event'.op = "introduction"
             /\ introduction.runs' = <<introduction.runs[1] + 1>>]_vars

\* the introduction has run to its end after two connections were established
\* and one of them closed, and its last message went to the patched connection
C32_Witness ==
  /\ event.op = "introduction" /\ event.data = <<1, 4>>
  /\ introduction.runs = <<4>>
  /\ constructed = ConnIds
  /\ Len(connections) = 1
  /\ Len(IntroductionSaid) = 1
  /\ IntroductionSaid[1].data = Utf8Encode(ChatMessage("Have fun!"))

\* a second connection is established while the first introduction is under way
\* and schedules nothing
C32_SecondSeen ==
  /\ event.op = "dialOpen" /\ event.data[2] # <<>>
  /\ introduction.runs = <<2>>

\* ---------------------------------------------------------------------- C33
\* the request is answered with 200 and the rewritten config, and the host that
\* was emitted is the config's own chat.host
FellBack ==
  /\ Len(Responses) = 1 /\ Responses[1].data.status = 200
  /\ Redirected(Responses[1].data.body)
  /\ Len(Emits) = 1
  /\ Emits[1].data[1] = [chatHost |-> UpOf.content.config.host.s,
                         chatPort |-> UpOf.content.config.port.n]

\* the lookup was made and gave no host
LookupFailed ==
  /\ Answered /\ PasOf # NoPas
  /\ \/ PasOf.kind \in {"throws", "short"}
     \/ PasOf.affinity = ""
     \/ Lookup(UpOf.content.config.affinities.o, PasOf.affinity) = ""

\* C33 as stated: the PAS lookup never fails or blocks the request: when it
\* rejects, gives a malformed token or names an affinity the config does not
\* have, the request is answered 200 with the rewritten config and the config's
\* own chat.host is emitted; and a request that waits for the PAS is answered in
\* the end, also when the PAS never answers.
C33_AsStated ==
  /\ [](LookupFailed => FellBack)
  /\ \A id \in RequestIds :
       (requests[id].state = "awaitingPas") ~> (requests[id].state = "done")

\* what holds: whenever the lookup settles without a host, the request is
\* answered 200 with the rewritten config and the config's own host is emitted
C33_WhenSettled == LookupFailed => FellBack

\* a request waits for the PAS: nothing but the PAS's answer ends the wait
C33_WaitingSeen ==
  /\ event.op = "configLookup"
  /\ requests[event.conn].state = "awaitingPas"
  /\ event.data[1] /\ LooksUp(event.data[1], event.data[2])
  /\ \A i \in 1..Len(io) : io[i].via # "response"

\* the PAS rejected and the request was answered with the config's own host
C33_FallbackSeen ==
  /\ LookupFailed /\ PasOf.kind = "throws" /\ FellBack
  /\ Emits[1].data[1].chatHost = HostDefault

\* ---------------------------------------------------------------------- C34
\* the upstream answered 2xx with a body that is no JSON object
Unparsed ==
  Answered /\ UpOf.kind = "response" /\ Ok(UpOf.status) /\ UpOf.content.json # "object"

\* C34 as stated: when the upstream's answer is 2xx and its body does not parse
\* as a JSON object, the response is 200 with the body as it came, and no
\* 'patchedChatServer' is emitted.
C34_AsStated ==
  Unparsed =>
    /\ Len(Responses) = 1 /\ Responses[1].data.status = 200
    /\ Responses[1].data.body = [text |-> "original", content |-> UpOf.content]
    /\ Emits = <<>>

\* C34, amended: when the upstream's answer is 2xx and its body is no JSON, or is
\* JSON null, a number, a string or a boolean, the response is 200 with the body
\* as it came; when the body is a JSON array the response is 200 with that array
\* serialized again; in both cases nothing is emitted and the controller's chat
\* target is not written.
C34_OriginalUnlessArray ==
  Unparsed =>
    /\ Len(Responses) = 1 /\ Responses[1].data.status = 200
    /\ Responses[1].data.contentType = "application/json"
    /\ Responses[1].data.body.content = UpOf.content
    /\ Responses[1].data.body.text
         = IF UpOf.content.json = "array" THEN "stringified" ELSE "original"
    /\ Emits = <<>>
    /\ Len(io) = 1

\* a body that is no JSON was returned as it came and nothing was emitted
C34_Witness ==
  /\ Unparsed /\ UpOf.content.json = "invalid"
  /\ Len(Responses) = 1 /\ Responses[1].data.status = 200
  /\ Responses[1].data.body = [text |-> "original", content |-> UpOf.content]
  /\ emitted = 0 /\ chatHost = Null

\* a JSON array was parsed and serialized again
C34_ArraySeen ==
  /\ Unparsed /\ UpOf.content.json = "array"
  /\ Len(Responses) = 1 /\ Responses[1].data.status = 200
  /\ Responses[1].data.body.text = "stringified"
  /\ emitted = 0

\* ---------------------------------------------------------------------- C35
\* C35 as stated: whenever the controller's set holds a connection no shutdown
\* timeout is armed, whatever the order of connections coming in, dials
\* completing and connections closing; so no timeout runs while a connection is
\* in the set.
C35_AsStated ==
  /\ connections # <<>> /\ Running => timers = {}
  /\ event.op = "timer" => event.data[2] = <<>>

\* what holds: a connection coming in leaves the stored handle empty and the
\* timeout it named disarmed, and the set is empty when a timeout is armed
C35_ArmedWhenEmpty ==
  [][/\ event'.op \in {"incoming", "accept"} =>
          shutdownTimer' = 0 /\ \A t \in timers' : t.id # shutdownTimer
     /\ timers' \ timers # {} => connections' = <<>>]_vars

\* the only connection of the set closed while another client's dial was
\* pending; the dial completed, and the timeout armed in between has run with
\* that connection in the set and ended the process
C35_ShutdownWhileLiveSeen ==
  /\ event.op = "timer"
  /\ ~event.data[1].outlived
  /\ event.data[2] # <<>>
  /\ exitCode = 0

\* a connection joins the set while the timeout is armed and its handle stored
C35_JoinsArmedSeen ==
  /\ event.op = "established"
  /\ connections # <<>>
  /\ \E t \in timers : t.id = shutdownTimer /\ ~t.outlived

\* ---------------------------------------------------------------------- C36
\* C36 as stated: at most one shutdown timeout is armed at any time and the
\* controller's handle names it, so that the one clearTimeout of a connection
\* coming in leaves none armed; also when the same connection is removed twice
\* (the upstream socket's error and then its close) and when a removal runs on
\* an empty set.
C36_AsStated ==
  /\ Cardinality(timers) <= 1
  /\ \A t \in timers : t.id = shutdownTimer
  /\ event.op = "open" => timers = {}

\* what holds: every removal that leaves the set empty arms one more timeout and
\* stores its handle, and a connection coming in clears the one that is stored
C36_LastOneStored ==
  [][/\ event'.op = "outgoing" /\ connections' = <<>> =>
          /\ Cardinality(timers') = Cardinality(timers) + 1
          /\ \E t \in timers' \ timers : t.id = shutdownTimer'
     /\ event'.op = "open" =>
          shutdownTimer' = 0 /\ \A t \in timers' : t.id # shutdownTimer]_vars

\* the upstream socket of the only connection reported an error and then its
\* close: the second removal ran on the empty set and armed a second timeout
C36_TwoArmedSeen ==
  /\ event.op = "outgoing" /\ event.data = <<"close", FALSE, <<>>>>
  /\ connections = <<>>
  /\ Cardinality(timers) = 2
  /\ \E t \in timers : t.id # shutdownTimer

\* the next client comes in and one of the two timeouts stays armed
C36_OneSurvivesSeen ==
  /\ event.op = "open"
  /\ shutdownTimer = 0
  /\ Cardinality(timers) = 1

\* ---------------------------------------------------------------------- C37
\* the events that run stop(): the tray's Quit, a timeout running out, a signal
StopRan == event.op \in {"trayQuit", "timer"} \cup Signals

\* C37 as stated: once stop() has run no shutdown timeout is armed; the closes
\* that stop() itself causes do not arm a new one.
C37_AsStated == StopRan => timers = {}

\* what holds: after stop() the stored timeout is armed exactly when stop() had
\* connections to close, and then it is one that stop() armed
C37_ArmedWhenLive ==
  [][StopRan' =>
       /\ connections' = <<>>
       /\ connections # <<>> <=> \E t \in timers' : t.id = shutdownTimer'
       /\ connections = <<>> => timers' \subseteq timers]_vars

\* the tray's Quit with a live connection: stop() closed it, the close emptied
\* the set and armed a timeout
C37_ArmedByStopSeen ==
  /\ event.op = "trayQuit" /\ event.data[1] # <<>>
  /\ connections = <<>>
  /\ \E t \in timers : t.id = shutdownTimer /\ ~t.outlived

\* stop() with no connection leaves no stored timeout armed
C37_QuietStopSeen ==
  /\ event.op = "trayQuit" /\ event.data[1] = <<>>
  /\ \A t \in timers : t.id # shutdownTimer

\* ---------------------------------------------------------------------- C38
\* the last global presence written upstream on c, as the last event left it
GlobalUpstream(c) == Utf8Decode(event.data[2][c])

\* the tray has set the status to Offline or to Mobile
SetHidden ==
  event.op = "setStatus" /\ event.data[1] \in {PresenceStatus.Offline, PresenceStatus.Mobile}

\* C38 as stated: after setStatus(m) with m Offline or Mobile, on every live
\* connection that has forwarded a global presence the last global presence
\* written upstream has the show of m, also when the client's latest presence
\* was one to a room sent after the global one.
C38_AsStated ==
  SetHidden =>
    \A c \in ConnIds :
      connected[c] /\ GlobalUpstream(c) # <<>> =>
        ShowsAre(GlobalUpstream(c), StatusText(event.data[1]))

\* what holds: the connections whose kept presence is a global one have it upstream
\* under m; a connection whose kept presence is one to a room gets that presence
\* written again as it is, and nothing else
C38_WhenGlobalKept ==
  SetHidden =>
    \A c \in ConnIds :
      /\ connected[c] /\ lastPresence[c] # <<>> /\ ~IncludesTo(lastPresence[c]) =>
           /\ GlobalUpstream(c) # <<>>
           /\ ShowsAre(GlobalUpstream(c), StatusText(event.data[1]))
      /\ connected[c] /\ IncludesTo(lastPresence[c]) =>
           SelectSeq(io, LAMBDA e : e.conn = c /\ e.to = "upstream")
             = <<[conn |-> c, to |-> "upstream",
                  data |-> Utf8Encode(lastPresence[c]), via |-> "muc"]>>

\* connection 1 sent its global presence while Offline and then a presence to a
\* room; the tray set Mobile, and upstream the global presence still says offline
C38_StaleGlobalSeen ==
  /\ SetHidden /\ event.data[1] = PresenceStatus.Mobile
  /\ lastPresence[1] = Utf8Decode(PresenceLobby)
  /\ GlobalUpstream(1) # <<>> /\ ShowsAre(GlobalUpstream(1), Offline)
  /\ \E i \in 1..Len(io) : io[i].conn = 1 /\ io[i].via = "muc"

\* the kept presence is the global one and setStatus(Mobile) wrote it as mobile
C38_GlobalReplayedSeen ==
  /\ SetHidden /\ event.data[1] = PresenceStatus.Mobile /\ event.status = PresenceStatus.Offline
  /\ lastPresence[1] = Utf8Decode(PresenceS2)
  /\ ShowsAre(GlobalUpstream(1), Mobile) /\ HasTag(GlobalUpstream(1), "<show>")

\* ---------------------------------------------------------------------- C39
\* connection c is in the controller's set with a presence kept, while enabled
Kept(c) ==
  enabled /\ (\E i \in 1..Len(connections) : connections[i] = c) /\ lastPresence[c] # <<>>

\* the last presence that the last handler wrote upstream on c is the kept
\* presence rewritten for the status now in force
LastIsCurrent(c) ==
  \A i \in ModeReads(c) :
    (\A j \in ModeReads(c) : j <= i) =>
      io[i].data = Utf8Encode(RewritePresence(lastPresence[c], status,
                                              valorantVersion[c]).modified)

\* C39 as stated: between handlers, while enabled, every connection of the
\* controller's set with a presence kept has as its last presence written
\* upstream that presence rewritten for the current status; also a connection
\* whose held chunks were a presence and then a command that sets the status.
\* A handler that writes a presence on c leaves the last one current, and a
\* handler that writes none on c leaves c's part of the statement as it was.
C39_AsStated ==
  /\ [](\A c \in HeldIds : Kept(c) /\ ModeReads(c) # {} => LastIsCurrent(c))
  /\ [][\A c \in HeldIds :
          Kept(c)' /\ ModeReads(c)' = {} =>
            Kept(c) /\ status' = status /\ lastPresence'[c] = lastPresence[c]]_vars

\* what holds: the same for every handler but the one that makes the connection
\* from a held client
C39_OnceInTheSet ==
  /\ [](\A c \in HeldIds :
          Kept(c) /\ ModeReads(c) # {} /\ ~Released(c) => LastIsCurrent(c))
  /\ [][\A c \in HeldIds :
          Kept(c)' /\ ModeReads(c)' = {} /\ ~Released(c)' =>
            Kept(c) /\ status' = status /\ lastPresence'[c] = lastPresence[c]]_vars

\* connection 1 was made from a client held with its presence and `offline
\* please`: it is in the set, enabled, status Offline, and its presence went
\* upstream as chat
C39_StaleSeen ==
  /\ Released(1) /\ Kept(1)
  /\ event.status = PresenceStatus.Online /\ status = PresenceStatus.Offline
  /\ ModeReads(1) # {} /\ ~LastIsCurrent(1)
  /\ \A i \in ModeReads(1) : ShowsAre(io[i].data, Chat)

\* the tray set Offline with connection 1 in the set: its presence was replayed
C39_ReplayedSeen ==
  /\ event.op = "setStatus" /\ event.status = PresenceStatus.Online
  /\ Kept(1) /\ ModeReads(1) # {} /\ LastIsCurrent(1)
  /\ \A i \in ModeReads(1) : ShowsAre(io[i].data, Offline)

\* ---------------------------------------------------------------------- C40
\* the fake player's presence was written to c's client before place i of the
\* last handler's log: by that handler, or by one before it
AnnouncedBefore(c, i) ==
  \/ \E j \in 1..(i - 1) : io[j].conn = c /\ io[j].via = "fakePresence"
  \/ /\ sentFakePlayerPresence[c]
     /\ \A j \in 1..Len(io) : ~(io[j].conn = c /\ io[j].via = "fakePresence")

\* C40 as stated: on every connection no message of the fake player is written
\* to the client before the fake player's presence has been written to it,
\* however roster chunks, client chunks, status changes and the introduction
\* timer follow one another.
C40_AsStated ==
  \A c \in ConnIds : \A i \in 1..Len(io) :
    io[i].conn = c /\ io[i].via = "fakeMessage" => AnnouncedBefore(c, i)

\* what holds: a message is written only to a client that got the patched roster
C40_AfterRoster ==
  \A c \in ConnIds : \A i \in 1..Len(io) :
    io[i].conn = c /\ io[i].via = "fakeMessage" => insertedFakePlayer[c] /\ rosterChunks[c] >= 1

\* the introduction timer ran after the roster of connection 1 was patched and
\* before its client sent anything: the message is written, the presence is not
C40_IntroductionFirstSeen ==
  /\ event.op = "introduction"
  /\ insertedFakePlayer[1] /\ ~sentFakePlayerPresence[1]
  /\ \E i \in 1..Len(io) : io[i].conn = 1 /\ io[i].via = "fakeMessage"

\* the same with the tray's setStatus
C40_StatusFirstSeen ==
  /\ event.op = "setStatus"
  /\ insertedFakePlayer[1] /\ ~sentFakePlayerPresence[1] /\ presencesSent[1] = 0
  /\ \E i \in 1..Len(io) : io[i].conn = 1 /\ io[i].via = "fakeMessage"

=============================================================================
